---- MODULE Spec2Model ----
(***************************************************************************)
(* Model of the email daily report pipeline (scripts/email_daily_report.py) *)
(* and of the trend analyzer (scripts/trend_analyzer.py).                   *)
(*                                                                         *)
(* Text is a sequence of one-character strings, so that str.lower() and    *)
(* the substring test `kw in text` are computed, not assumed.              *)
(***************************************************************************)
EXTENDS Integers, Sequences, FiniteSets, TLC

\* ------------------------------------------------------------------------
\* Bounds of the model
\* ------------------------------------------------------------------------
\* longest list of message handles for which every list is explored
MaxEmails == 2
\* length of the one longer list of handles a search can return
SpikeEmails == 6
\* number of runs of EmailDailyReport.run that are explored
MaxRuns == 2

\* Python's None
None == [none |-> TRUE]

\* the least element of a non-empty set of integers
MinOf(S) == CHOOSE x \in S : \A y \in S : x <= y

\* ------------------------------------------------------------------------
\* Text helpers
\* ------------------------------------------------------------------------
UpperAlpha == <<"A","B","C","D","E","F","G","H","I","J","K","L","M","N","O","P","Q","R","S","T","U","V","W","X","Y","Z">>
LowerAlpha == <<"a","b","c","d","e","f","g","h","i","j","k","l","m","n","o","p","q","r","s","t","u","v","w","x","y","z">>
Digits == <<"0","1","2","3","4","5","6","7","8","9">>

\* str.lower() of one character
LowerChar(c) ==
    IF \E i \in 1..26 : UpperAlpha[i] = c
    THEN LowerAlpha[CHOOSE i \in 1..26 : UpperAlpha[i] = c]
    ELSE c

\* str.lower()
Lower(text) == [i \in 1..Len(text) |-> LowerChar(text[i])]

\* needle occurs in text at (1-based) position i
MatchAt(needle, text, i) ==
    /\ i >= 1
    /\ i + Len(needle) - 1 <= Len(text)
    /\ \A j \in 1..Len(needle) : text[i + j - 1] = needle[j]

\* Python `needle in text`
Contains(needle, text) ==
    \E i \in 1..(Len(text) - Len(needle) + 1) : MatchAt(needle, text, i)

\* text[a:b] with 0-based Python slice bounds already clamped to 0..len
Slice(text, a, b) == IF b <= a THEN <<>> ELSE SubSeq(text, a + 1, b)

IsDigit(c) == \E i \in 1..10 : Digits[i] = c
DigitVal(c) == (CHOOSE i \in 1..10 : Digits[i] = c) - 1
IsSpace(c) == c \in {" ", "\n", "\t", "\r"}
\* the regex class \w restricted to ASCII
IsWordChar(c) ==
    \/ IsDigit(c)
    \/ c = "_"
    \/ \E i \in 1..26 : UpperAlpha[i] = c \/ LowerAlpha[i] = c

RECURSIVE LStrip(_)
LStrip(text) ==
    IF text # <<>> /\ IsSpace(Head(text)) THEN LStrip(Tail(text)) ELSE text

RECURSIVE RStrip(_)
RStrip(text) ==
    IF text # <<>> /\ IsSpace(text[Len(text)])
    THEN RStrip(SubSeq(text, 1, Len(text) - 1))
    ELSE text

\* str.strip()
Strip(text) == RStrip(LStrip(text))

\* number of elements of the sequence ws that satisfy the test
RECURSIVE CountWords(_, _, _)
CountWords(ws, subject_lower, body_lower) ==
    IF ws = <<>> THEN 0
    ELSE (IF Contains(Head(ws), subject_lower) \/ Contains(Head(ws), body_lower) THEN 1 ELSE 0)
         + CountWords(Tail(ws), subject_lower, body_lower)

\* any(keyword in subject_lower or keyword in body_lower for keyword in ks)
AnyKeyword(ks, subject_lower, body_lower) ==
    \E k \in 1..Len(ks) : Contains(ks[k], subject_lower) \/ Contains(ks[k], body_lower)

\* ------------------------------------------------------------------------
\* Classifier (counting policy and routing category)
\* ------------------------------------------------------------------------
high_importance_words ==
    << <<"u","r","g","e","n","t">>, <<"i","m","p","o","r","t","a","n","t">>, <<"d","e","c","i","s","i","o","n">>, <<"c","r","i","t","i","c","a","l">>, <<"i","m","m","e","d","i","a","t","e">>, <<"a","s","a","p">>,
       <<"b","u","d","g","e","t">>, <<"s","t","r","a","t","e","g","y">>, <<"r","o","a","d","m","a","p">>, <<"e","m","e","r","g","e","n","c","y">>, <<"h","i","g","h"," ","p","r","i","o","r","i","t","y">> >>

medium_importance_words ==
    << <<"u","p","d","a","t","e">>, <<"m","e","e","t","i","n","g">>, <<"r","e","v","i","e","w">>, <<"r","e","p","o","r","t">>, <<"a","n","a","l","y","s","i","s">>, <<"p","l","a","n">> >>

\* assess_importance with a single high-importance keyword enough for 'high'
AssessImportanceAnyHigh(subject, body) ==
    LET subject_lower == Lower(subject)
        body_lower == Lower(body)
        high_count == CountWords(high_importance_words, subject_lower, body_lower)
        medium_count == CountWords(medium_importance_words, subject_lower, body_lower)
    IN  IF high_count >= 1 THEN "high"
        ELSE IF medium_count >= 2 THEN "medium"
        ELSE "low"

assess_importance(subject, body) ==
    LET subject_lower == Lower(subject)
        body_lower == Lower(body)
        high_count == CountWords(high_importance_words, subject_lower, body_lower)
        medium_count == CountWords(medium_importance_words, subject_lower, body_lower)
    IN  IF high_count >= 2 THEN "high"
        ELSE IF high_count >= 1 \/ medium_count >= 2 THEN "medium"
        ELSE "low"

decision_keywords ==
    << <<"d","e","c","i","s","i","o","n">>, <<"d","e","c","i","d","e">>, <<"a","p","p","r","o","v","e">>, <<"a","p","p","r","o","v","a","l">>, <<"b","u","d","g","e","t">>, <<"s","t","r","a","t","e","g","y">>, <<"r","o","a","d","m","a","p">> >>
alert_keywords ==
    << <<"a","l","e","r","t">>, <<"w","a","r","n","i","n","g">>, <<"e","r","r","o","r">>, <<"f","a","i","l","u","r","e">>, <<"u","r","g","e","n","t">>, <<"e","m","e","r","g","e","n","c","y">>, <<"c","r","i","t","i","c","a","l">> >>
update_keywords ==
    << <<"u","p","d","a","t","e">>, <<"p","r","o","g","r","e","s","s">>, <<"s","t","a","t","u","s">>, <<"r","e","p","o","r","t">>, <<"s","u","m","m","a","r","y">>, <<"r","e","v","i","e","w">> >>

\* Categorize with the alert keywords tried before the decision keywords
CategorizeAlertsFirst(subject, body) ==
    LET subject_lower == Lower(subject)
        body_lower == Lower(body)
    IN  IF AnyKeyword(alert_keywords, subject_lower, body_lower) THEN "alerts"
        ELSE IF AnyKeyword(decision_keywords, subject_lower, body_lower) THEN "decisions"
        ELSE IF AnyKeyword(update_keywords, subject_lower, body_lower) THEN "updates"
        ELSE "general"

\* the category a message with this subject and body is appended to by the
\* loop body of categorize_emails
Categorize(subject, body) ==
    LET subject_lower == Lower(subject)
        body_lower == Lower(body)
    IN  IF AnyKeyword(decision_keywords, subject_lower, body_lower) THEN "decisions"
        ELSE IF AnyKeyword(alert_keywords, subject_lower, body_lower) THEN "alerts"
        ELSE IF AnyKeyword(update_keywords, subject_lower, body_lower) THEN "updates"
        ELSE "general"

\* ------------------------------------------------------------------------
\* Regular-expression scans of extract_decision_info / extract_data_points
\* (positions are 1-based; Len(text) + 1 is the end of the text)
\* ------------------------------------------------------------------------
\* first position >= p that is the end of the text or holds a newline
EndOfLine(text, p) ==
    IF p > Len(text) THEN p
    ELSE MinOf({q \in p..(Len(text) + 1) : q > Len(text) \/ text[q] = "\n"})

\* first position >= i that does not hold a digit
RECURSIVE RunEnd(_, _)
RunEnd(text, i) ==
    IF i <= Len(text) /\ IsDigit(text[i]) THEN RunEnd(text, i + 1) ELSE i

\* `.*?(?:a|b|c)` from p: the end of the first alternative found on the line, 0 if none
AltEnd(text, p, alts) ==
    LET cands == {q \in p..EndOfLine(text, p) : \E a \in 1..Len(alts) : MatchAt(alts[a], text, q)}
    IN  IF cands = {} THEN 0
        ELSE LET q == MinOf(cands)
                 a == CHOOSE b \in 1..Len(alts) :
                        /\ MatchAt(alts[b], text, q)
                        /\ \A b2 \in 1..(b - 1) : ~MatchAt(alts[b2], text, q)
             IN  q + Len(alts[a])

\* first match of  head.*?(?:alts).*?(?=\n|$)  (alts = <<>> : no alternative
\* is required); <<>> when nothing matches (a match is never empty)
FirstLineMatch(text, head, alts) ==
    LET starts == {i \in 1..Len(text) :
                     /\ MatchAt(head, text, i)
                     /\ alts # <<>> => AltEnd(text, i + Len(head), alts) # 0}
    IN  IF starts = {} THEN <<>>
        ELSE LET i == MinOf(starts)
             IN  SubSeq(text, i, EndOfLine(text, i) - 1)

\* first match of  head.*?(?:alts)
FirstShortMatch(text, head, alts) ==
    LET starts == {i \in 1..Len(text) :
                     /\ MatchAt(head, text, i)
                     /\ AltEnd(text, i + Len(head), alts) # 0}
    IN  IF starts = {} THEN <<>>
        ELSE LET i == MinOf(starts)
             IN  SubSeq(text, i, AltEnd(text, i + Len(head), alts) - 1)

\* matches[0] of the first of the four decision_patterns that matches, else <<>>
FirstDecisionMatch(body) ==
    LET m1 == FirstLineMatch(body, <<"d","e","c","i","s","i","o","n">>, <<<<"o","n">>, <<"f","o","r">>, <<"a","b","o","u","t">>>>)
        m2 == FirstLineMatch(body, <<"a","p","p","r","o","v","e">>, <<>>)
        m3 == FirstShortMatch(body, <<"b","u","d","g","e","t">>, <<<<"i","n","c","r","e","a","s","e">>, <<"d","e","c","r","e","a","s","e">>, <<"a","d","j","u","s","t">>>>)
        m4 == FirstShortMatch(body, <<"s","t","r","a","t","e","g","y">>, <<<<"c","h","a","n","g","e">>, <<"u","p","d","a","t","e">>, <<"m","o","d","i","f","y">>>>)
    IN  IF m1 # <<>> THEN m1
        ELSE IF m2 # <<>> THEN m2
        ELSE IF m3 # <<>> THEN m3
        ELSE m4

extract_decision_info(email) ==
    LET body == Lower(email.body)
        m == FirstDecisionMatch(body)
    IN  IF m # <<>>
        THEN [subject |-> email.subject, decision |-> m, date |-> email.date]
        ELSE None

\* end (exclusive) of the match of (\d+(?:\.\d+)?)% that starts at i, else 0
PercentEnd(text, i) ==
    IF ~IsDigit(text[i]) THEN 0
    ELSE LET e == RunEnd(text, i)
             e2 == RunEnd(text, e + 1)
         IN  IF /\ e + 1 <= Len(text) /\ text[e] = "." /\ IsDigit(text[e + 1])
                /\ e2 <= Len(text) /\ text[e2] = "%"
             THEN e2
             ELSE IF e <= Len(text) /\ text[e] = "%" THEN e
             ELSE 0

\* re.findall(r'(\d+(?:\.\d+)?)%', text), scanning from position i: the scan
\* moves on to the first position where the pattern matches and resumes
\* behind the % of that match
RECURSIVE PercentMatches(_, _)
PercentMatches(text, i) ==
    LET starts == {j \in i..Len(text) : PercentEnd(text, j) # 0}
    IN  IF starts = {} THEN <<>>
        ELSE LET s == MinOf(starts)
                 e == PercentEnd(text, s)
             IN  <<SubSeq(text, s, e - 1)>> \o PercentMatches(text, e + 1)

\* number of consecutive groups ,\d{3} that start at p
RECURSIVE CommaGroups(_, _)
CommaGroups(text, p) ==
    IF /\ p + 3 <= Len(text) /\ text[p] = ","
       /\ IsDigit(text[p + 1]) /\ IsDigit(text[p + 2]) /\ IsDigit(text[p + 3])
    THEN 1 + CommaGroups(text, p + 4)
    ELSE 0

\* \b holds at p, given that the character before p is a word character
BoundaryAfter(text, p) == p > Len(text) \/ ~IsWordChar(text[p])

\* end (exclusive) of the match of \b(\d+(?:,\d{3})*(?:\.\d+)?)\b at i, else 0
NumberEnd(text, i) ==
    IF ~IsDigit(text[i]) \/ (i > 1 /\ IsWordChar(text[i - 1])) THEN 0
    ELSE LET e == RunEnd(text, i)
             k == CommaGroups(text, e)
             p == e + 4 * k
             e2 == RunEnd(text, p + 1)
         IN  IF /\ p + 1 <= Len(text) /\ text[p] = "." /\ IsDigit(text[p + 1])
                /\ BoundaryAfter(text, e2)
             THEN e2
             ELSE IF BoundaryAfter(text, p) THEN p
             ELSE IF k >= 1 THEN e + 4 * (k - 1)
             ELSE 0

\* re.findall(r'\b(\d+(?:,\d{3})*(?:\.\d+)?)\b', text), scanning from position i
RECURSIVE NumberMatches(_, _)
NumberMatches(text, i) ==
    LET starts == {j \in i..Len(text) : NumberEnd(text, j) # 0}
    IN  IF starts = {} THEN <<>>
        ELSE LET s == MinOf(starts)
                 e == NumberEnd(text, s)
             IN  <<SubSeq(text, s, e - 1)>> \o NumberMatches(text, e)

\* ------------------------------------------------------------------------
\* Floats: a float is the decimal m * 10^-e with no trailing zero in the
\* fraction (m % 10 # 0 when e > 0).  The numerals of the modelled messages
\* stay far below 2^53, where float() of a decimal numeral loses nothing
\* that repr() prints.
\* ------------------------------------------------------------------------
RECURSIVE Pow10(_)
Pow10(n) == IF n = 0 THEN 1 ELSE 10 * Pow10(n - 1)

\* value of a sequence of digit characters read as a decimal numeral
RECURSIVE DigitsValue(_)
DigitsValue(ds) ==
    IF ds = <<>> THEN 0
    ELSE DigitsValue(SubSeq(ds, 1, Len(ds) - 1)) * 10 + DigitVal(ds[Len(ds)])

RECURSIVE NormFloat(_, _)
NormFloat(m, e) ==
    IF e > 0 /\ m % 10 = 0 THEN NormFloat(m \div 10, e - 1) ELSE [m |-> m, e |-> e]

\* match.replace(',', '')
RemoveCommas(s) == SelectSeq(s, LAMBDA c : c # ",")

\* float(s) for s of the shape digits or digits.digits
FloatOfText(s) ==
    LET dots == {i \in 1..Len(s) : s[i] = "."}
    IN  IF dots = {} THEN [m |-> DigitsValue(s), e |-> 0]
        ELSE LET d == CHOOSE i \in dots : TRUE
                 frac == SubSeq(s, d + 1, Len(s))
             IN  NormFloat(DigitsValue(SubSeq(s, 1, d - 1) \o frac), Len(frac))

\* f > n for a float f and an integer n
FloatGreater(f, n) == f.m > n * Pow10(f.e)

\* context_size default of find_context
ContextSize == 50

\* text.find(target): 0-based index of the first occurrence, -1 if none
Find(text, target) ==
    LET occ == {i \in 1..(Len(text) - Len(target) + 1) : MatchAt(target, text, i)}
    IN  IF occ = {} THEN -1 ELSE (CHOOSE i \in occ : \A j \in occ : i <= j) - 1

Max(a, b) == IF a >= b THEN a ELSE b
Min(a, b) == IF a <= b THEN a ELSE b

find_context(text, target) ==
    LET index == Find(text, target)
        start == Max(0, index - ContextSize)
        end == Min(Len(text), index + Len(target) + ContextSize)
    IN  IF index = -1 THEN <<>> ELSE Strip(Slice(text, start, end))

\* the data points appended for the percentage matches, in match order
RECURSIVE PercentPoints(_, _)
PercentPoints(text, matches) ==
    IF matches = <<>> THEN <<>>
    ELSE <<[type |-> <<"p","e","r","c","e","n","t","a","g","e">>,
            value |-> FloatOfText(Head(matches)),
            context |-> find_context(text, Head(matches) \o <<"%">>)]>>
         \o PercentPoints(text, Tail(matches))

\* the data points appended for the number matches, in match order
RECURSIVE NumberPoints(_, _)
NumberPoints(text, matches) ==
    IF matches = <<>> THEN <<>>
    ELSE LET match == Head(matches)
             value == FloatOfText(RemoveCommas(match))
         IN  (IF Len(match) > 3 /\ match[1] # "0" /\ FloatGreater(value, 100)
              THEN <<[type |-> <<"n","u","m","b","e","r">>, value |-> value,
                      context |-> find_context(text, match)]>>
              ELSE <<>>)
             \o NumberPoints(text, Tail(matches))

extract_data_points(text) ==
    PercentPoints(text, PercentMatches(text, 1)) \o NumberPoints(text, NumberMatches(text, 1))

\* a body of exactly 200 characters and one of 201
Body200 ==
    <<"l","o","g"," ","l","i","n","e"," ","l","o","g"," ","l","i","n","e"," ","l","o","g"," ","l","i","n","e"," ","l","o","g"," ","l","i","n","e"," ","l","o","g"," ","l","i","n","e"," ","l","o","g"," ","l","i","n","e"," ","l","o","g"," ","l","i","n","e"," ","l","o","g"," ","l","i","n","e"," ","l","o","g"," ","l","i","n","e"," ","l","o","g"," ","l","i","n","e"," ","l","o","g"," ","l","i","n","e"," ","l","o","g"," ","l","i","n","e"," ","l","o","g"," ","l","i","n","e"," ","l","o","g"," ","l","i","n","e"," ","l","o","g"," ","l","i","n","e"," ","l","o","g"," ","l","i","n","e"," ","l","o","g"," ","l","i","n","e"," ","l","o","g"," ","l","i","n","e"," ","l","o","g"," ","l","i","n","e"," ","l","o","g"," ","l","i","n","e"," ","l","o","g"," ","l","i","n","e"," ","l","o","g"," ","l","i","n","e"," ","l","o">>
Body201 ==
    <<"a","p","p","r","o","v","e"," ","i","t"," ","a","p","p","r","o","v","e"," ","i","t"," ","a","p","p","r","o","v","e"," ","i","t"," ","a","p","p","r","o","v","e"," ","i","t"," ","a","p","p","r","o","v","e"," ","i","t"," ","a","p","p","r","o","v","e"," ","i","t"," ","a","p","p","r","o","v","e"," ","i","t"," ","a","p","p","r","o","v","e"," ","i","t"," ","a","p","p","r","o","v","e"," ","i","t"," ","a","p","p","r","o","v","e"," ","i","t"," ","a","p","p","r","o","v","e"," ","i","t"," ","a","p","p","r","o","v","e"," ","i","t"," ","a","p","p","r","o","v","e"," ","i","t"," ","a","p","p","r","o","v","e"," ","i","t"," ","a","p","p","r","o","v","e"," ","i","t"," ","a","p","p","r","o","v","e"," ","i","t"," ","a","p","p","r","o","v","e"," ","i","t"," ","a","p","p","r","o","v","e"," ","i","t"," ","a","p","p">>

\* ------------------------------------------------------------------------
\* The mailbox: the messages of the monitored sender, in mailbox order.
\* A message is given by its decoded subject, its Date header as
\* isoformat() prints it, and the body extract_email_body returns.
\* ------------------------------------------------------------------------
Inbox ==
    << [subject |-> <<"U","r","g","e","n","t",":"," ","B","u","d","g","e","t"," ","D","e","c","i","s","i","o","n"," ","N","e","e","d","e","d">>,
        date |-> <<"2","0","2","6","-","0","1","-","0","5","T","0","9",":","0","0",":","0","0">>,
        body |-> <<"a","p","p","r","o","v","e"," ","t","h","e"," ","b","u","d","g","e","t"," ","i","n","c","r","e","a","s","e">>],
       [subject |-> <<"D","i","s","k"," ","W","a","r","n","i","n","g">>,
        date |-> <<"2","0","2","6","-","0","1","-","0","5","T","1","0",":","3","0",":","0","0">>,
        body |-> <<"u","s","a","g","e"," ","a","t"," ","8","5",".","5","%"," ","o","f"," ","2",",","0","4","8"," ","G","B","\n","p","l","e","a","s","e"," ","c","h","e","c","k">>],
       [subject |-> <<"W","e","e","k","l","y"," ","S","t","a","t","u","s"," ","R","e","p","o","r","t">>,
        date |-> <<"2","0","2","6","-","0","1","-","0","5","T","1","1",":","0","0",":","0","0">>,
        body |-> <<"P","r","o","g","r","e","s","s"," ","u","p","d","a","t","e",":"," ","1","5","0","0"," ","t","a","s","k","s"," ","d","o","n","e">>],
       [subject |-> <<"H","e","l","l","o">>,
        date |-> <<"2","0","2","6","-","0","1","-","0","5","T","1","2",":","0","0",":","0","0">>,
        body |-> <<"S","e","e"," ","y","o","u"," ","\"","s","o","o","n","\"">>],
       [subject |-> <<"L","u","n","c","h">>,
        date |-> <<"2","0","2","6","-","0","1","-","0","5","T","1","2",":","3","0",":","0","0">>,
        body |-> <<"w","e"," ","d","e","c","i","d","e"," ","l","a","t","e","r">>],
       [subject |-> <<"U","r","g","e","n","t",":"," ","c","r","i","t","i","c","a","l"," ","o","u","t","a","g","e">>,
        date |-> <<"2","0","2","6","-","0","1","-","0","5","T","1","3",":","0","0",":","0","0">>,
        body |-> Body200],
       [subject |-> <<"E","m","e","r","g","e","n","c","y"," ","A","S","A","P">>,
        date |-> <<"2","0","2","6","-","0","1","-","0","5","T","1","3",":","3","0",":","0","0">>,
        body |-> Body201] >>

\* the lists of handles a search can return: ascending message numbers
Ascending(ids) ==
    \A i \in 1..(Len(ids) - 1) : ids[i] < ids[i + 1]

\* every list of at most MaxEmails handles, and the list of the first
\* SpikeEmails messages of the mailbox
SearchResults ==
    UNION {{ids \in [1..n -> 1..Len(Inbox)] : Ascending(ids)} : n \in 0..MaxEmails}
    \cup {[i \in 1..Min(SpikeEmails, Len(Inbox)) |-> i]}

\* The functions of one message are applied once to each message of the
\* mailbox; the tables hold their results by message number.
ImportanceTable ==
    [i \in 1..Len(Inbox) |-> assess_importance(Inbox[i].subject, Inbox[i].body)]
CategoryTable ==
    [i \in 1..Len(Inbox) |-> Categorize(Inbox[i].subject, Inbox[i].body)]

\* the dict parse_email returns for a fetched message ('from' and 'size'
\* are read by nothing downstream and are left out)
ParsedEmail(email_id) ==
    LET raw == Inbox[email_id]
    IN  [id |-> email_id,
         subject |-> raw.subject,
         date |-> raw.date,
         body |-> raw.body,
         importance |-> ImportanceTable[email_id]]

DecisionTable ==
    [i \in 1..Len(Inbox) |-> extract_decision_info(ParsedEmail(i))]
\* IndicatorTable without the test: every message is scanned for a decision
IndicatorTableNoTest ==
    [i \in 1..Len(Inbox) |-> TRUE]
\* 'decision' in email['subject'].lower() or 'decide' in email['body'].lower()
IndicatorTable ==
    [i \in 1..Len(Inbox) |->
        \/ Contains(<<"d","e","c","i","s","i","o","n">>, Lower(Inbox[i].subject))
        \/ Contains(<<"d","e","c","i","d","e">>, Lower(Inbox[i].body))]
DataPointsTable ==
    [i \in 1..Len(Inbox) |-> extract_data_points(Inbox[i].body)]

\* the category the loop body of categorize_emails appends the message to
CategoryOf(email) == CategoryTable[email.id]

\* SelectSeq with a two-argument test
RECURSIVE InCategory(_, _)
InCategory(emails, cat) ==
    IF emails = <<>> THEN <<>>
    ELSE (IF CategoryOf(Head(emails)) = cat THEN <<Head(emails)>> ELSE <<>>)
         \o InCategory(Tail(emails), cat)

categorize_emails(emails) ==
    [decisions |-> InCategory(emails, "decisions"),
     updates |-> InCategory(emails, "updates"),
     alerts |-> InCategory(emails, "alerts"),
     general |-> InCategory(emails, "general")]

\* ------------------------------------------------------------------------
\* Daily Aggregator
\* ------------------------------------------------------------------------
\* longest body that is copied whole into an urgent item
SummaryLimit == 200

EmptyKeyData(n) ==
    [total_emails |-> n,
     by_importance |-> [high |-> 0, medium |-> 0, low |-> 0],
     by_category |-> [decisions |-> 0, updates |-> 0, alerts |-> 0, general |-> 0],
     key_decisions |-> <<>>,
     urgent_items |-> <<>>,
     data_points |-> <<>>]

\* CountImportance with `= +1` written for `+= 1`
CountImportanceAssign(by_importance, importance) ==
    [by_importance EXCEPT ![importance] = 1]

\* key_data['by_importance'][email['importance']] += 1
CountImportance(by_importance, importance) ==
    [by_importance EXCEPT ![importance] = @ + 1]

\* KeyDataStep cutting the body from 200 characters on
KeyDataStepFromLimit(key_data, email) ==
    LET decision_info == DecisionTable[email.id]
        has_indicator == IndicatorTable[email.id]
        summary == IF Len(email.body) >= SummaryLimit
                   THEN SubSeq(email.body, 1, SummaryLimit) \o <<".",".",".">>
                   ELSE email.body
    IN  [key_data EXCEPT
            !.by_importance = CountImportance(@, email.importance),
            !.key_decisions = IF has_indicator /\ decision_info # None
                              THEN Append(@, decision_info) ELSE @,
            !.urgent_items = IF email.importance = "high"
                             THEN Append(@, [subject |-> email.subject, summary |-> summary])
                             ELSE @,
            !.data_points = @ \o DataPointsTable[email.id]]

\* one iteration of the loop of extract_key_data
KeyDataStep(key_data, email) ==
    LET decision_info == DecisionTable[email.id]
        has_indicator == IndicatorTable[email.id]
        summary == IF Len(email.body) > SummaryLimit
                   THEN SubSeq(email.body, 1, SummaryLimit) \o <<".",".",".">>
                   ELSE email.body
    IN  [key_data EXCEPT
            !.by_importance = CountImportance(@, email.importance),
            !.key_decisions = IF has_indicator /\ decision_info # None
                              THEN Append(@, decision_info) ELSE @,
            !.urgent_items = IF email.importance = "high"
                             THEN Append(@, [subject |-> email.subject, summary |-> summary])
                             ELSE @,
            !.data_points = @ \o DataPointsTable[email.id]]

RECURSIVE KeyDataLoop(_, _)
KeyDataLoop(key_data, emails) ==
    IF emails = <<>> THEN key_data
    ELSE KeyDataLoop(KeyDataStep(key_data, Head(emails)), Tail(emails))

extract_key_data(emails) == KeyDataLoop(EmptyKeyData(Len(emails)), emails)

\* ------------------------------------------------------------------------
\* History Store: the file holds the JSON text as a sequence of tokens
\* (separators and indentation carry no value and are left out)
\* ------------------------------------------------------------------------
Token(t) == [t |-> t, k |-> "", s |-> <<>>, n |-> 0, fd |-> <<>>]
KeyToken(k) == [Token("key") EXCEPT !.k = k]

\* JSON string escapes written with ensure_ascii=False
EscapeChar(c) ==
    IF c = "\"" THEN <<"\\", "\"">>
    ELSE IF c = "\\" THEN <<"\\", "\\">>
    ELSE IF c = "\n" THEN <<"\\", "n">>
    ELSE IF c = "\r" THEN <<"\\", "r">>
    ELSE IF c = "\t" THEN <<"\\", "t">>
    ELSE <<c>>

\* the escaped text of positions a..b of s
RECURSIVE EscapeRange(_, _, _)
EscapeRange(s, a, b) ==
    IF a > b THEN <<>>
    ELSE IF a = b THEN EscapeChar(s[a])
    ELSE LET mid == (a + b) \div 2
         IN  EscapeRange(s, a, mid) \o EscapeRange(s, mid + 1, b)

EscapeJson(s) ==
    IF \A i \in 1..Len(s) : s[i] \notin {"\"", "\\", "\n", "\r", "\t"} THEN s
    ELSE EscapeRange(s, 1, Len(s))

UnescapeChar(c) ==
    IF c = "n" THEN "\n" ELSE IF c = "r" THEN "\r" ELSE IF c = "t" THEN "\t" ELSE c

\* position i of s holds the backslash that opens an escape: a backslash
\* after an even number of backslashes
OpensEscape(s, i) ==
    /\ i >= 1
    /\ s[i] = "\\"
    /\ Cardinality({k \in 1..(i - 1) : \A j \in 1..k : s[i - j] = "\\"}) % 2 = 0

\* the unescaped text of positions a..b of s
RECURSIVE UnescapeRange(_, _, _)
UnescapeRange(s, a, b) ==
    IF a > b THEN <<>>
    ELSE IF a = b
         THEN IF OpensEscape(s, a) THEN <<>>
              ELSE IF OpensEscape(s, a - 1) THEN <<UnescapeChar(s[a])>>
              ELSE <<s[a]>>
    ELSE LET mid == (a + b) \div 2
         IN  UnescapeRange(s, a, mid) \o UnescapeRange(s, mid + 1, b)

UnescapeJson(s) ==
    IF \A i \in 1..Len(s) : s[i] # "\\" THEN s
    ELSE UnescapeRange(s, 1, Len(s))

\* the n lowest decimal digits of v, most significant first
RECURSIVE DigitChars(_, _)
DigitChars(v, n) ==
    IF n = 0 THEN <<>> ELSE DigitChars(v \div 10, n - 1) \o <<Digits[(v % 10) + 1]>>

StrToken(s) == [Token("str") EXCEPT !.s = EscapeJson(s)]
IntToken(n) == [Token("int") EXCEPT !.n = n]

\* FloatToken with the value rounded down to a whole number before it is written
FloatTokenWhole(f) ==
    [Token("float") EXCEPT !.n = f.m \div Pow10(f.e), !.fd = <<"0">>]

\* float.__repr__: 1234.0, 85.5
FloatToken(f) ==
    [Token("float") EXCEPT
        !.n = f.m \div Pow10(f.e),
        !.fd = IF f.e = 0 THEN <<"0">> ELSE DigitChars(f.m % Pow10(f.e), f.e)]

RECURSIVE DumpDecisions(_)
DumpDecisions(ds) ==
    IF ds = <<>> THEN <<>>
    ELSE << Token("{"),
            KeyToken("subject"), StrToken(Head(ds).subject),
            KeyToken("decision"), StrToken(Head(ds).decision),
            KeyToken("date"), StrToken(Head(ds).date),
            Token("}") >> \o DumpDecisions(Tail(ds))

RECURSIVE DumpUrgentItems(_)
DumpUrgentItems(us) ==
    IF us = <<>> THEN <<>>
    ELSE << Token("{"),
            KeyToken("subject"), StrToken(Head(us).subject),
            KeyToken("summary"), StrToken(Head(us).summary),
            Token("}") >> \o DumpUrgentItems(Tail(us))

RECURSIVE DumpDataPoints(_)
DumpDataPoints(ps) ==
    IF ps = <<>> THEN <<>>
    ELSE << Token("{"),
            KeyToken("type"), StrToken(Head(ps).type),
            KeyToken("value"), FloatToken(Head(ps).value),
            KeyToken("context"), StrToken(Head(ps).context),
            Token("}") >> \o DumpDataPoints(Tail(ps))

\* json.dump(data, f, ensure_ascii=False, indent=2) of a key_data dict
json_dump(data) ==
    << Token("{"),
       KeyToken("total_emails"), IntToken(data.total_emails),
       KeyToken("by_importance"), Token("{"),
           KeyToken("high"), IntToken(data.by_importance.high),
           KeyToken("medium"), IntToken(data.by_importance.medium),
           KeyToken("low"), IntToken(data.by_importance.low),
       Token("}"),
       KeyToken("by_category"), Token("{"),
           KeyToken("decisions"), IntToken(data.by_category.decisions),
           KeyToken("updates"), IntToken(data.by_category.updates),
           KeyToken("alerts"), IntToken(data.by_category.alerts),
           KeyToken("general"), IntToken(data.by_category.general),
       Token("}"),
       KeyToken("key_decisions"), Token("[") >> \o DumpDecisions(data.key_decisions) \o
    << Token("]"),
       KeyToken("urgent_items"), Token("[") >> \o DumpUrgentItems(data.urgent_items) \o
    << Token("]"),
       KeyToken("data_points"), Token("[") >> \o DumpDataPoints(data.data_points) \o
    << Token("]"),
       Token("}") >>

ParseFail == [ok |-> FALSE, v |-> 0, next |-> 0]

RECURSIVE ParseValue(_, _)
RECURSIVE ParseMembers(_, _, _)
RECURSIVE ParseElements(_, _, _)

\* the JSON value that starts at token i
ParseValue(toks, i) ==
    IF i > Len(toks) THEN ParseFail
    ELSE LET tok == toks[i]
         IN  IF tok.t = "str" THEN [ok |-> TRUE, v |-> UnescapeJson(tok.s), next |-> i + 1]
             ELSE IF tok.t = "int" THEN [ok |-> TRUE, v |-> tok.n, next |-> i + 1]
             ELSE IF tok.t = "float"
                  THEN [ok |-> TRUE,
                        v |-> NormFloat(tok.n * Pow10(Len(tok.fd)) + DigitsValue(tok.fd), Len(tok.fd)),
                        next |-> i + 1]
             ELSE IF tok.t = "{" THEN ParseMembers(toks, i + 1, <<>>)
             ELSE IF tok.t = "[" THEN ParseElements(toks, i + 1, <<>>)
             ELSE ParseFail

\* the members of an object up to its closing brace; acc holds those read so far
ParseMembers(toks, i, acc) ==
    IF i > Len(toks) THEN ParseFail
    ELSE IF toks[i].t = "}" THEN [ok |-> TRUE, v |-> acc, next |-> i + 1]
    ELSE IF toks[i].t = "key"
         THEN LET r == ParseValue(toks, i + 1)
              IN  IF r.ok THEN ParseMembers(toks, r.next, (toks[i].k :> r.v) @@ acc)
                  ELSE ParseFail
    ELSE ParseFail

\* the elements of an array up to its closing bracket
ParseElements(toks, i, acc) ==
    IF i > Len(toks) THEN ParseFail
    ELSE IF toks[i].t = "]" THEN [ok |-> TRUE, v |-> acc, next |-> i + 1]
    ELSE LET r == ParseValue(toks, i)
         IN  IF r.ok THEN ParseElements(toks, r.next, Append(acc, r.v))
             ELSE ParseFail

\* json.load(f): ok = FALSE stands for the exception it raises
json_load(toks) ==
    LET r == ParseValue(toks, 1)
    IN  IF r.ok /\ r.next = Len(toks) + 1 THEN r ELSE ParseFail

\* the Python type of the loaded document
JsonKind(toks) ==
    IF toks = <<>> THEN "none"
    ELSE IF toks[1].t = "{" THEN "dict"
    ELSE IF toks[1].t = "[" THEN "list"
    ELSE "scalar"

\* ------------------------------------------------------------------------
\* compare_with_history / save_history
\* ------------------------------------------------------------------------
\* open() fails and leaves the file alone, or the write fails and leaves the
\* tokens flushed before the error, or the whole document is written
WriteOutcomes == {"ok", "open_failed", "write_failed"}
TruncatedAt == {0, 1}

NoFile == [exists |-> FALSE, toks |-> <<>>]

\* the file after save_history(data)
save_history(file, data, outcome, flushed) ==
    IF outcome = "ok" THEN [exists |-> TRUE, toks |-> json_dump(data)]
    ELSE IF outcome = "open_failed" THEN file
    ELSE [exists |-> TRUE, toks |-> SubSeq(json_dump(data), 1, flushed)]

\* CountChange subtracting the current total from the persisted one
CountChangeReversed(file, read_ok, current_data) ==
    LET history == json_load(file.toks)
    IN  IF /\ file.exists
           /\ read_ok
           /\ history.ok
           /\ JsonKind(file.toks) = "dict"
           /\ "total_emails" \in DOMAIN history.v
        THEN history.v.total_emails - current_data.total_emails
        ELSE 0

\* comparison['email_count_change'] of compare_with_history
CountChange(file, read_ok, current_data) ==
    LET history == json_load(file.toks)
    IN  IF /\ file.exists
           /\ read_ok
           /\ history.ok
           /\ JsonKind(file.toks) = "dict"
           /\ "total_emails" \in DOMAIN history.v
        THEN current_data.total_emails - history.v.total_emails
        ELSE 0

compare_with_history(file, read_ok, current_data) ==
    [email_count_change |-> CountChange(file, read_ok, current_data),
     new_topics |-> <<>>,
     trending_keywords |-> <<>>,
     significant_changes |-> <<>>]

\* ------------------------------------------------------------------------
\* Report Renderer: the report is kept as the values the template prints
\* ------------------------------------------------------------------------
\* comparison['email_count_change'] above which the volume spike is reported
VolumeSpikeDelta == 5

NoEmailsReport == [kind |-> "no_emails"]
FailedReport(error) == [kind |-> "failed", error |-> error]

Recommendations(key_data, comparison) ==
    (IF key_data.by_importance.high > 0 THEN <<"High Priority">> ELSE <<>>)
    \o (IF Len(key_data.key_decisions) > 0 THEN <<"Follow-up">> ELSE <<>>)
    \o (IF Len(key_data.urgent_items) > 0 THEN <<"Urgent">> ELSE <<>>)
    \o (IF comparison.email_count_change > VolumeSpikeDelta THEN <<"Volume Spike">> ELSE <<>>)

generate_report(emails, key_data, comparison) ==
    IF emails = <<>> THEN NoEmailsReport
    ELSE LET categories == categorize_emails(emails)
         IN  [kind |-> "report",
              total_emails |-> key_data.total_emails,
              email_count_change |-> comparison.email_count_change,
              by_importance |-> key_data.by_importance,
              urgent_items |-> Len(key_data.urgent_items),
              key_decisions |-> Len(key_data.key_decisions),
              category_counts |-> [c \in DOMAIN categories |-> Len(categories[c])],
              data_highlights |-> SubSeq(key_data.data_points, 1, Min(5, Len(key_data.data_points))),
              recommendations |-> Recommendations(key_data, comparison)]

\* ------------------------------------------------------------------------
\* State
\* ------------------------------------------------------------------------
VARIABLES
    pc,             \* position of EmailDailyReport.run
    runs,           \* number of runs that have returned
    mail,           \* the mailbox connection: "none", "open" or "closed"
    email_ids,      \* handles returned by the search of this run
    pos,            \* index in email_ids of the next handle to parse
    emails,         \* messages parsed so far in this run
    key_data,       \* Daily Aggregate of this run, None before it is computed
    comparison,     \* result of compare_with_history, None before it is computed
    categories,     \* categories computed by generate_report, None before
    report,         \* value returned by run, None while the run is under way
    history_file,   \* data/email_history.json
    written,        \* the aggregates that save_history wrote in full, oldest first
    history,        \* input of the trend analyzer: the loaded history list
    days,           \* input of the trend analyzer: the window size
    analysed,       \* the sub-analyses of the trend analyzer that have returned
    volume_trend,   \* result of analyze_volume_trend, None before the call
    keyword_trends, \* result of analyze_keyword_trends, <<>> before the call
    weekly_analysis, \* result of analyze_weekly_trends, None before the call
    weekly_report,  \* what generate_weekly_report returned or raised, None before the call
    msg_subject,    \* input of the classifiers: the subject of the message
    msg_content,    \* input of the classifiers: the Content Bundle of the message
    classified,     \* the classifiers that have returned
    importance_counting, \* result of assess_importance, "" before the call
    msg_type,       \* result of classify_email_type, "" before the call
    importance_advanced, \* result of assess_importance_advanced, "" before the call
    text_parts,     \* HTMLTextExtractor.text
    links,          \* HTMLTextExtractor.links
    in_script,      \* HTMLTextExtractor.in_script
    in_style,       \* HTMLTextExtractor.in_style
    current_tag,    \* HTMLTextExtractor.current_tag, "None" for None
    events,         \* number of parser events fed to the extractor
    open_raw,       \* record of what was fed: the script/style elements that are open
    data_log,       \* record of what was fed: each text with whether it was inside one
    anchor_log,     \* record of what was fed: the attributes of each anchor start tag
    adv_entry,      \* the entry point under way: "run", "heartbeat" or "none"
    adv_pc,         \* position of TencentAdvisorAnalyzer.run or heartbeat_check
    adv_runs,       \* number of advisor entry points that have returned
    adv_mail,       \* the mailbox connection of fetch_emails: "none", "open", "closed"
    adv_ids,        \* handles returned by the search of fetch_emails
    adv_pos,        \* index in adv_ids of the next handle to parse
    adv_emails,     \* the list fetch_emails has built or returned
    adv_report,     \* the dict of generate_intelligent_report, None before
    adv_output,     \* value returned by TencentAdvisorAnalyzer.run, None before
    report_file,    \* data/latest_report.json
    notification,   \* value returned by heartbeat_check, None before and for None
    stdout,         \* what the heartbeat entry point printed, None before
    exit_code,      \* exit code of the entry point, -1 while it runs
    fetched_raw,    \* the messages parse_email_full was called on, in order
    parsed_full,    \* the dicts parse_email_full returned, in order
    attachment_writes \* the files save_attachment wrote, in order

run_vars == <<pc, runs, mail, email_ids, pos, emails, key_data, comparison,
              categories, report, history_file, written>>
trend_vars == <<history, days, analysed, volume_trend, keyword_trends,
                weekly_analysis, weekly_report>>
classify_vars == <<msg_subject, msg_content, classified, importance_counting,
                   msg_type, importance_advanced>>
html_vars == <<text_parts, links, in_script, in_style, current_tag, events,
               open_raw, data_log, anchor_log>>
advisor_vars == <<adv_entry, adv_pc, adv_runs, adv_mail, adv_ids, adv_pos, adv_emails,
                  adv_report, adv_output, report_file, notification, stdout, exit_code>>
content_vars == <<fetched_raw, parsed_full, attachment_writes>>
vars == <<run_vars, trend_vars, classify_vars, html_vars, advisor_vars, content_vars>>

RunInit ==
    /\ pc = "idle"
    /\ runs = 0
    /\ mail = "none"
    /\ email_ids = <<>>
    /\ pos = 1
    /\ emails = <<>>
    /\ key_data = None
    /\ comparison = None
    /\ categories = None
    /\ report = None
    /\ history_file = NoFile
    /\ written = <<>>

\* ------------------------------------------------------------------------
\* EmailDailyReport.run, one action per step between two I/O operations
\* ------------------------------------------------------------------------
\* run is entered and connect_to_mailbox either returns the connection ...
StartRun(next_pc, next_mail, next_report) ==
    /\ pc \in {"idle", "done"}
    /\ runs < MaxRuns
    /\ pc' = next_pc
    /\ mail' = next_mail
    /\ report' = next_report
    /\ email_ids' = <<>>
    /\ pos' = 1
    /\ emails' = <<>>
    /\ key_data' = None
    /\ comparison' = None
    /\ categories' = None
    /\ UNCHANGED <<history_file, written, trend_vars, classify_vars, html_vars, advisor_vars, content_vars>>

ConnectOk ==
    /\ StartRun("connected", "open", None)
    /\ UNCHANGED runs

\* ... or raises, which the handler of run turns into the failure digest
ConnectFail ==
    /\ StartRun("done", "none", FailedReport("connect"))
    /\ runs' = runs + 1

\* search_emails_from_sender returns at least one handle
SearchFound ==
    /\ pc = "connected"
    /\ \E ids \in SearchResults :
        /\ ids # <<>>
        /\ email_ids' = ids
    /\ pc' = "parsing"
    /\ UNCHANGED <<runs, mail, pos, emails, key_data, comparison, categories,
                   report, history_file, written, trend_vars, classify_vars, html_vars, advisor_vars, content_vars>>

\* SearchEmpty persisting an empty aggregate before it returns
SearchEmptySavesHistory ==
    /\ pc = "connected"
    /\ mail' = "closed"
    /\ report' = generate_report(<<>>, None, None)
    /\ pc' = "done"
    /\ runs' = runs + 1
    /\ history_file' = save_history(history_file, extract_key_data(<<>>), "ok", 0)
    /\ written' = Append(written, extract_key_data(<<>>))
    /\ UNCHANGED <<email_ids, pos, emails, key_data, comparison, categories,
                   trend_vars, classify_vars, html_vars, advisor_vars, content_vars>>

\* the search finds nothing, answers a status other than OK or raises: the
\* list is empty, the connection is logged out and the empty report returned
SearchEmpty ==
    /\ pc = "connected"
    /\ mail' = "closed"
    /\ report' = generate_report(<<>>, None, None)
    /\ pc' = "done"
    /\ runs' = runs + 1
    /\ UNCHANGED <<email_ids, pos, emails, key_data, comparison, categories,
                   history_file, written, trend_vars, classify_vars, html_vars, advisor_vars, content_vars>>

\* the loop of run leaving at the first message that fails to parse
ParseEmailStopsAtFailure ==
    /\ pc = "parsing"
    /\ pos <= Len(email_ids)
    /\ \E fetched \in BOOLEAN :
        /\ emails' = IF fetched THEN Append(emails, ParsedEmail(email_ids[pos])) ELSE emails
        /\ pos' = IF fetched THEN pos + 1 ELSE Len(email_ids) + 1
    /\ UNCHANGED <<pc, runs, mail, email_ids, key_data, comparison, categories,
                   report, history_file, written, trend_vars, classify_vars, html_vars, advisor_vars, content_vars>>

\* one iteration of the parse loop: parse_email returns the dict or None
ParseEmail ==
    /\ pc = "parsing"
    /\ pos <= Len(email_ids)
    /\ \E fetched \in BOOLEAN :
        emails' = IF fetched THEN Append(emails, ParsedEmail(email_ids[pos])) ELSE emails
    /\ pos' = pos + 1
    /\ UNCHANGED <<pc, runs, mail, email_ids, key_data, comparison, categories,
                   report, history_file, written, trend_vars, classify_vars, html_vars, advisor_vars, content_vars>>

\* mail.logout() behind the loop
Logout ==
    /\ pc = "parsing"
    /\ pos > Len(email_ids)
    /\ mail' = "closed"
    /\ pc' = "parsed"
    /\ UNCHANGED <<runs, email_ids, pos, emails, key_data, comparison, categories,
                   report, history_file, written, trend_vars, classify_vars, html_vars, advisor_vars, content_vars>>

ExtractKeyData ==
    /\ pc = "parsed"
    /\ key_data' = extract_key_data(emails)
    /\ pc' = "extracted"
    /\ UNCHANGED <<runs, mail, email_ids, pos, emails, comparison, categories,
                   report, history_file, written, trend_vars, classify_vars, html_vars, advisor_vars, content_vars>>

\* compare_with_history: reads the file, then calls save_history
CompareWithHistory ==
    /\ pc = "extracted"
    /\ \E read_ok \in BOOLEAN :
        /\ history_file.exists \/ read_ok
        /\ comparison' = compare_with_history(history_file, read_ok, key_data)
    /\ \E outcome \in WriteOutcomes, flushed \in TruncatedAt :
        /\ outcome = "write_failed" \/ flushed = 0
        /\ history_file' = save_history(history_file, key_data, outcome, flushed)
        /\ written' = IF outcome = "ok" THEN Append(written, key_data) ELSE written
    /\ pc' = "compared"
    /\ UNCHANGED <<runs, mail, email_ids, pos, emails, key_data, categories,
                   report, trend_vars, classify_vars, html_vars, advisor_vars, content_vars>>

GenerateReport ==
    /\ pc = "compared"
    /\ categories' = IF emails = <<>> THEN None ELSE categorize_emails(emails)
    /\ report' = generate_report(emails, key_data, comparison)
    /\ pc' = "done"
    /\ runs' = runs + 1
    /\ UNCHANGED <<mail, email_ids, pos, emails, key_data, comparison,
                   history_file, written, trend_vars, classify_vars, html_vars, advisor_vars, content_vars>>

RunNext ==
    \/ ConnectOk
    \/ ConnectFail
    \/ SearchFound
    \/ SearchEmpty
    \/ ParseEmail
    \/ Logout
    \/ ExtractKeyData
    \/ CompareWithHistory
    \/ GenerateReport

\* ------------------------------------------------------------------------
\* Trend Analyzer (scripts/trend_analyzer.py)
\* ------------------------------------------------------------------------
\* largest total_emails of a day of the explored histories
MaxTotal == 21
\* longest explored history of days that carry totals
MaxVolumeDays == 2
\* longest explored history of days that carry keywords
MaxKeywordDays == 7
\* longest explored history of days that carry importance or category counts
MaxCountDays == 3
\* longest history on which analyze_weekly_trends is explored
MaxWeeklyDays == 3

\* dict.get(key, default)
Get(dict, key, default) == IF key \in DOMAIN dict THEN dict[key] ELSE default

\* history[-days:] for days >= 1
LastDays(hist, d) == SubSeq(hist, Max(1, Len(hist) - d + 1), Len(hist))

Abs(x) == IF x < 0 THEN -x ELSE x

RECURSIVE Gcd(_, _)
Gcd(a, b) == IF b = 0 THEN a ELSE Gcd(b, a % b)

\* the number num / den (den > 0) in lowest terms; stands for the float
Rat(num, den) ==
    LET g == Gcd(Abs(num), den)
    IN  [num |-> num \div g, den |-> den \div g]

\* r < n, r > n for a rational r and an integer n
RatLess(r, n) == r.num < n * r.den
RatGreater(r, n) == r.num > n * r.den
RatAbs(r) == [num |-> Abs(r.num), den |-> r.den]

\* VolumeBand with the test for > 5 placed before the test for > 20
VolumeBandReordered(change_rate) ==
    IF RatLess(RatAbs(change_rate), 5) THEN "stable"
    ELSE IF RatGreater(change_rate, 5) THEN "increasing"
    ELSE IF RatGreater(change_rate, 20) THEN "significantly_increasing"
    ELSE IF RatLess(change_rate, -20) THEN "significantly_decreasing"
    ELSE "decreasing"

\* VolumeBand with `abs(change_rate) <= 5` for the stable band
VolumeBandInclusive(change_rate) ==
    IF ~RatGreater(RatAbs(change_rate), 5) THEN "stable"
    ELSE IF RatGreater(change_rate, 20) THEN "significantly_increasing"
    ELSE IF RatGreater(change_rate, 5) THEN "increasing"
    ELSE IF RatLess(change_rate, -20) THEN "significantly_decreasing"
    ELSE "decreasing"

\* VolumeBand with `change_rate >= 5` for the increasing band
VolumeBandFromFive(change_rate) ==
    IF RatLess(RatAbs(change_rate), 5) THEN "stable"
    ELSE IF RatGreater(change_rate, 20) THEN "significantly_increasing"
    ELSE IF ~RatLess(change_rate, 5) THEN "increasing"
    ELSE IF RatLess(change_rate, -20) THEN "significantly_decreasing"
    ELSE "decreasing"

\* the five bands, first match wins
VolumeBand(change_rate) ==
    IF RatLess(RatAbs(change_rate), 5) THEN "stable"
    ELSE IF RatGreater(change_rate, 20) THEN "significantly_increasing"
    ELSE IF RatGreater(change_rate, 5) THEN "increasing"
    ELSE IF RatLess(change_rate, -20) THEN "significantly_decreasing"
    ELSE "decreasing"

\* ChangeRate that divides by max(previous, 1) in place of the test previous > 0
ChangeRateNoGuard(latest, previous) ==
    Rat((latest - previous) * 100, Max(previous, 1))

\* ((latest - previous) / previous) * 100, 0 when previous is 0
ChangeRate(latest, previous) ==
    IF previous > 0 THEN Rat((latest - previous) * 100, previous) ELSE Rat(0, 1)

analyze_volume_trend(hist, d) ==
    LET window == LastDays(hist, d)
        recent_volumes == [i \in 1..Len(window) |-> Get(window[i], "total_emails", 0)]
        n == Len(recent_volumes)
        change_rate == ChangeRate(recent_volumes[n], recent_volumes[n - 1])
    IN  IF Len(hist) < 2 \/ n < 2
        THEN [trend |-> "stable", change_rate |-> Rat(0, 1)]
        ELSE [trend |-> VolumeBand(change_rate),
              change_rate |-> change_rate,
              recent_volumes |-> recent_volumes]

\* the keywords of the days of the window whose 0-based index i satisfies
\* i >= d - 3 (recent = TRUE) or not (recent = FALSE), concatenated in order
RECURSIVE WindowKeywords(_, _, _, _)
WindowKeywords(window, i, d, recent) ==
    IF i >= Len(window) THEN <<>>
    ELSE (IF (i >= d - 3) = recent THEN Get(window[i + 1], "keywords", <<>>) ELSE <<>>)
         \o WindowKeywords(window, i + 1, d, recent)

\* Counter(keywords)[keyword]
Count(keywords, keyword) == Cardinality({i \in 1..Len(keywords) : keywords[i] = keyword})

\* list(Counter(keywords)): the distinct keywords in order of first occurrence
RECURSIVE CounterKeys(_)
CounterKeys(keywords) ==
    IF keywords = <<>> THEN <<>>
    ELSE LET init == SubSeq(keywords, 1, Len(keywords) - 1)
             last == keywords[Len(keywords)]
         IN  IF Count(init, last) > 0 THEN CounterKeys(init)
             ELSE Append(CounterKeys(init), last)

\* IsEmerging with `<` written for `>`
IsEmergingFlipped(recent_count, previous_count) ==
    2 * recent_count < 3 * previous_count /\ recent_count >= 2

\* recent_count > previous_count * 1.5 and recent_count >= 2
IsEmerging(recent_count, previous_count) ==
    2 * recent_count > 3 * previous_count /\ recent_count >= 2

\* IsDeclining with `<=` written for `<`
IsDecliningInclusive(recent_count, previous_count) ==
    2 * recent_count <= previous_count /\ previous_count >= 2

\* recent_count < previous_count * 0.5 and previous_count >= 2
IsDeclining(recent_count, previous_count) ==
    2 * recent_count < previous_count /\ previous_count >= 2

RECURSIVE TrendEntries(_, _, _, _)
TrendEntries(keys, recent_keywords, previous_keywords, trend) ==
    IF keys = <<>> THEN <<>>
    ELSE LET keyword == Head(keys)
             recent_count == Count(recent_keywords, keyword)
             previous_count == Count(previous_keywords, keyword)
             hit == IF trend = "emerging" THEN IsEmerging(recent_count, previous_count)
                    ELSE IsDeclining(recent_count, previous_count)
         IN  (IF hit THEN <<[keyword |-> keyword,
                             recent_count |-> recent_count,
                             previous_count |-> previous_count,
                             trend |-> trend]>>
              ELSE <<>>)
             \o TrendEntries(Tail(keys), recent_keywords, previous_keywords, trend)

recent_keywords_of(hist, d) == WindowKeywords(LastDays(hist, d), 0, d, TRUE)
previous_keywords_of(hist, d) == WindowKeywords(LastDays(hist, d), 0, d, FALSE)

analyze_keyword_trends(hist, d) ==
    LET recent_keywords == recent_keywords_of(hist, d)
        previous_keywords == previous_keywords_of(hist, d)
    IN  IF Len(hist) < 2 THEN <<>>
        ELSE TrendEntries(CounterKeys(recent_keywords), recent_keywords, previous_keywords, "emerging")
             \o TrendEntries(CounterKeys(previous_keywords), recent_keywords, previous_keywords, "declining")

\* sum(dict.values())
RECURSIVE SumValues(_)
SumValues(dict) ==
    IF DOMAIN dict = {} THEN 0
    ELSE LET k == CHOOSE x \in DOMAIN dict : TRUE
         IN  dict[k] + SumValues([x \in DOMAIN dict \ {k} |-> dict[x]])

\* a < b for two rationals
RatLT(a, b) == a.num * b.den < b.num * a.den

\* the rational a * n / d for integers n and d > 0
RatScale(a, n, d) == Rat(a.num * n, a.den * d)

RECURSIVE RatSum(_)
RatSum(rs) ==
    IF rs = <<>> THEN Rat(0, 1)
    ELSE LET rest == RatSum(Tail(rs))
         IN  Rat(rs[1].num * rest.den + rest.num * rs[1].den, rs[1].den * rest.den)

\* np.mean of a non-empty list
Mean(rs) == RatScale(RatSum(rs), 1, Len(rs))

\* latest > avg * 1.2, latest < avg * 0.8, else stable_importance
ImportanceBand(latest_ratio, avg_ratio) ==
    IF RatLT(RatScale(avg_ratio, 6, 5), latest_ratio) THEN "increasing_importance"
    ELSE IF RatLT(latest_ratio, RatScale(avg_ratio, 4, 5)) THEN "decreasing_importance"
    ELSE "stable_importance"

analyze_importance_trends(hist, d) ==
    LET window == LastDays(hist, d)
        recent_importance == [i \in 1..Len(window) |-> Get(window[i], "by_importance", <<>>)]
        Counted(imp_dist) == SumValues(imp_dist) > 0
        counted == SelectSeq(recent_importance, Counted)
        high_importance_ratios ==
            [i \in 1..Len(counted) |->
                Rat(Get(counted[i], "high", 0) * 100, SumValues(counted[i]))]
        n == Len(high_importance_ratios)
        latest_ratio == high_importance_ratios[n]
        avg_ratio == Mean(SubSeq(high_importance_ratios, 1, n - 1))
    IN  IF Len(hist) < 2 \/ n < 2 THEN [trend |-> "stable"]
        ELSE [trend |-> ImportanceBand(latest_ratio, avg_ratio),
              latest_ratio |-> latest_ratio,
              average_ratio |-> avg_ratio,
              ratios |-> high_importance_ratios]

\* the five bands of a category, first match wins
CategoryBand(latest, previous_avg) ==
    LET l == Rat(latest, 1)
    IN  IF RatLT(RatScale(previous_avg, 3, 2), l) THEN "significantly_increasing"
        ELSE IF RatLT(RatScale(previous_avg, 11, 10), l) THEN "increasing"
        ELSE IF RatLT(l, RatScale(previous_avg, 1, 2)) THEN "significantly_decreasing"
        ELSE IF RatLT(l, RatScale(previous_avg, 9, 10)) THEN "decreasing"
        ELSE "stable"

category_names == <<"decisions", "updates", "alerts", "general">>

analyze_category_trends(hist, d) ==
    LET window == LastDays(hist, d)
        recent_categories == [i \in 1..Len(window) |-> Get(window[i], "by_category", <<>>)]
        n == Len(recent_categories)
        CountsOf(category) == [i \in 1..n |-> Get(recent_categories[i], category, 0)]
        AsRats(counts) == [i \in 1..Len(counts) |-> Rat(counts[i], 1)]
    IN  IF Len(hist) < 2 THEN [trend |-> "stable"]
        ELSE [category \in (IF n >= 2 THEN {category_names[i] : i \in 1..4} ELSE {}) |->
                LET category_counts == CountsOf(category)
                    latest == category_counts[n]
                    previous_avg == Mean(AsRats(SubSeq(category_counts, 1, n - 1)))
                IN  [trend |-> CategoryBand(latest, previous_avg),
                     latest_count |-> latest,
                     previous_average |-> previous_avg,
                     counts |-> category_counts]]

\* analyze_weekly_trends once load_history has returned hist
analyze_weekly_trends(hist) ==
    IF hist = <<>>
    THEN [weekly_change |-> 0,
          trending_keywords |-> <<>>,
          pattern_changes |-> <<>>,
          prediction |-> "insufficient_data"]
    ELSE [email_volume_trend |-> analyze_volume_trend(hist, 7),
          keyword_trends |-> analyze_keyword_trends(hist, 7),
          importance_trends |-> analyze_importance_trends(hist, 7),
          category_trends |-> analyze_category_trends(hist, 7)]

\* generate_trend_insights: the insights in the order they are appended
generate_trend_insights(analysis) ==
    LET volume_trend_ == Get(analysis, "email_volume_trend", <<>>)
        change_rate == Get(volume_trend_, "change_rate", Rat(0, 1))
        importance_trend == Get(analysis, "importance_trends", <<>>)
        keyword_trends_ == Get(analysis, "keyword_trends", <<>>)
        emerging_keywords == SelectSeq(keyword_trends_, LAMBDA kw : kw.trend = "emerging")
    IN  (IF RatGreater(change_rate, 20) THEN <<[insight |-> "volume_increased", rate |-> change_rate]>>
         ELSE IF RatLess(change_rate, -20) THEN <<[insight |-> "volume_decreased", rate |-> change_rate]>>
         ELSE <<>>)
        \o (IF Get(importance_trend, "trend", "") = "increasing_importance"
             THEN <<[insight |-> "importance_increased"]>>
            ELSE IF Get(importance_trend, "trend", "") = "decreasing_importance"
             THEN <<[insight |-> "importance_decreased"]>>
            ELSE <<>>)
        \o (IF emerging_keywords # <<>>
             THEN <<[insight |-> "emerging",
                     top_keywords |-> [i \in 1..Min(3, Len(emerging_keywords)) |->
                                          emerging_keywords[i].keyword]]>>
             ELSE <<>>)

\* the exception a statement of the program raised
Raised(error) == [kind |-> "raised", error |-> error]

\* the values of a dict analyze_category_trends returns are the dicts of the
\* categories, which trend_data['trend'] can index, except the str 'stable'
\* under the key 'trend' that it returns for a history of less than two days
IsStrValue(category_trends, key) == key = "trend"

\* generate_weekly_report once load_history has returned hist: the report is
\* kept as the values the template prints; the loop over
\* category_trends.items() raises TypeError at a value that is a str
generate_weekly_report(hist) ==
    LET weekly_analysis_ == analyze_weekly_trends(hist)
        volume == Get(weekly_analysis_, "email_volume_trend", <<>>)
        recent == Get(volume, "recent_volumes", <<>>)
        keyword_trends_ == Get(weekly_analysis_, "keyword_trends", <<>>)
        importance == Get(weekly_analysis_, "importance_trends", <<>>)
        category_trends == Get(weekly_analysis_, "category_trends", <<>>)
        keys == SelectSeq(<<"trend">> \o category_names,
                          LAMBDA key : key \in DOMAIN category_trends)
    IN  IF \E i \in 1..Len(keys) : IsStrValue(category_trends, keys[i])
        THEN Raised("TypeError")
        ELSE [kind |-> "report",
              volume_trend |-> Get(volume, "trend", "unknown"),
              change_rate |-> Get(volume, "change_rate", Rat(0, 1)),
              recent_volumes |-> SubSeq(recent, Max(1, Len(recent) - 2), Len(recent)),
              keyword_trends |-> SubSeq(keyword_trends_, 1, Min(5, Len(keyword_trends_))),
              importance_trend |-> Get(importance, "trend", "unknown"),
              latest_ratio |-> Get(importance, "latest_ratio", Rat(0, 1)),
              average_ratio |-> Get(importance, "average_ratio", Rat(0, 1)),
              category_trends |-> [i \in 1..Len(keys) |->
                    [category |-> keys[i],
                     trend |-> category_trends[keys[i]].trend,
                     latest_count |-> category_trends[keys[i]].latest_count,
                     previous_average |-> category_trends[keys[i]].previous_average]],
              insights |-> generate_trend_insights(weekly_analysis_)]

\* window sizes passed as `days` (7 is the default and what
\* analyze_weekly_trends passes)
DaysChoices == {2, 7}

\* the keyword lists a day of the explored histories carries
KeywordLists == {<<>>, <<"ai">>, <<"budget">>, <<"ai", "budget">>}

SeqsUpTo(S, n) == UNION {[1..k -> S] : k \in 0..n}

VolumeHistories == SeqsUpTo({[total_emails |-> t] : t \in 0..MaxTotal}, MaxVolumeDays)
KeywordHistories == SeqsUpTo({[keywords |-> ks] : ks \in KeywordLists}, MaxKeywordDays)

\* the counts a day of the explored histories carries for one importance
\* and for one category
DayCounts == {0, 2}

ImportanceHistories ==
    SeqsUpTo({[by_importance |-> [high |-> h, medium |-> 0, low |-> l]] :
                 h \in DayCounts, l \in DayCounts}, MaxCountDays)
CategoryHistories ==
    SeqsUpTo({[by_category |-> [decisions |-> a, updates |-> 0, alerts |-> b, general |-> 0]] :
                 a \in DayCounts, b \in DayCounts}, MaxCountDays)

TrendInit ==
    /\ history \in VolumeHistories \cup KeywordHistories \cup ImportanceHistories
                   \cup CategoryHistories
    /\ days \in DaysChoices
    /\ analysed = {}
    /\ volume_trend = None
    /\ keyword_trends = <<>>
    /\ weekly_analysis = None
    /\ weekly_report = None

AnalyzeVolumeTrend ==
    /\ "volume" \notin analysed
    /\ "weekly" \notin analysed
    /\ volume_trend' = analyze_volume_trend(history, days)
    /\ analysed' = analysed \cup {"volume"}
    /\ UNCHANGED <<history, days, keyword_trends, weekly_analysis, weekly_report,
                   run_vars, content_vars, classify_vars, html_vars, advisor_vars>>

AnalyzeKeywordTrends ==
    /\ "keyword" \notin analysed
    /\ "weekly" \notin analysed
    /\ keyword_trends' = analyze_keyword_trends(history, days)
    /\ analysed' = analysed \cup {"keyword"}
    /\ UNCHANGED <<history, days, volume_trend, weekly_analysis, weekly_report,
                   run_vars, content_vars, classify_vars, html_vars, advisor_vars>>

\* analyze_weekly_trends on the loaded history: the four sub-analyses with
\* days=7, or the 'insufficient_data' dict for an empty history
AnalyzeWeeklyTrends ==
    /\ analysed = {}
    /\ Len(history) <= MaxWeeklyDays
    /\ weekly_analysis' = analyze_weekly_trends(history)
    /\ analysed' = {"weekly"}
    /\ UNCHANGED <<history, days, volume_trend, keyword_trends, weekly_report,
                   run_vars, content_vars, classify_vars, html_vars, advisor_vars>>

\* generate_weekly_report: analyze_weekly_trends on the loaded history, then
\* the rendering of its result
GenerateWeeklyReport ==
    /\ analysed = {}
    /\ Len(history) <= MaxWeeklyDays
    /\ weekly_analysis' = analyze_weekly_trends(history)
    /\ weekly_report' = generate_weekly_report(history)
    /\ analysed' = {"weekly_report"}
    /\ UNCHANGED <<history, days, volume_trend, keyword_trends,
                   run_vars, content_vars, classify_vars, html_vars, advisor_vars>>

TrendNext ==
    \/ AnalyzeVolumeTrend
    \/ AnalyzeKeywordTrends
    \/ AnalyzeWeeklyTrends
    \/ GenerateWeeklyReport

\* ------------------------------------------------------------------------
\* Classifier of the advisor analyzer (scripts/tencent_advisor_analyzer.py):
\* message type and importance under the presence policy.  A character
\* outside ASCII is written as its code point, "U+00E5".
\* ------------------------------------------------------------------------
capacity_keywords ==
    << <<"U+00E5","U+00AE","U+00B9","U+00E9","U+2021">>,
       <<"U+00E8","U+00B4","U+0178","U+00E8","U+00BD","U+00BD">>, <<"c","a","p","a","c","i","t","y">>, <<"l","o","a","d">>,
       <<"a","r","c","h">> >>
inspection_keywords ==
    << <<"U+00E5","U+00B7","U+00A1","U+00E6","U+00A3","U+20AC">>,
       <<"U+00E5","U+00B7","U+00A1","U+00E6","U+00A3","U+20AC">>, <<"i","n","s","p","e","c","t","i","o","n">>,
       <<"c","h","e","c","k">> >>
alert_type_keywords ==
    << <<"U+00E5","U+2018","U+0160","U+00E8","U+00AD","U+00A6">>, <<"a","l","e","r","t">>,
       <<"U+00E8","U+00AD","U+00A6","U+00E5","U+2018","U+0160">>, <<"w","a","r","n","i","n","g">> >>
cost_keywords ==
    << <<"U+00E6","U+02C6","U+00E6","U+0153","U+00AC">>, <<"c","o","s","t">>, <<"b","i","l","l","i","n","g">>,
       <<"U+00E8","U+00B4","U+00B9","U+00E7","U+201D","U+00A8">> >>
security_keywords ==
    << <<"U+00E5","U+00AE","U+2030","U+00E5","U+2026","U+00A8">>, <<"s","e","c","u","r","i","t","y">>, <<"r","i","s","k">> >>

\* any(kw in subject_lower for kw in ks)
AnyIn(ks, subject_lower) == \E k \in 1..Len(ks) : Contains(ks[k], subject_lower)

\* classify_email_type with the inspection keywords tried first
ClassifyInspectionFirst(subject, body) ==
    LET subject_lower == Lower(subject)
    IN  IF AnyIn(inspection_keywords, subject_lower) THEN "inspection_report"
        ELSE IF AnyIn(capacity_keywords, subject_lower) THEN "capacity_report"
        ELSE IF AnyIn(alert_type_keywords, subject_lower) THEN "alert"
        ELSE IF AnyIn(cost_keywords, subject_lower) THEN "cost_report"
        ELSE IF AnyIn(security_keywords, subject_lower) THEN "security_report"
        ELSE "general"

\* body_lower is computed by the code and read by no test
classify_email_type(subject, body) ==
    LET subject_lower == Lower(subject)
    IN  IF AnyIn(capacity_keywords, subject_lower) THEN "capacity_report"
        ELSE IF AnyIn(inspection_keywords, subject_lower) THEN "inspection_report"
        ELSE IF AnyIn(alert_type_keywords, subject_lower) THEN "alert"
        ELSE IF AnyIn(cost_keywords, subject_lower) THEN "cost_report"
        ELSE IF AnyIn(security_keywords, subject_lower) THEN "security_report"
        ELSE "general"

critical ==
    << <<"c","r","i","t","i","c","a","l">>, <<"u","r","g","e","n","t">>, <<"e","m","e","r","g","e","n","c","y">>,
       <<"U+00E4","U+00B8","U+00A5","U+00E9","U+2021">>,
       <<"U+00E7","U+00B4","U+00A7","U+00E6","U+20AC","U+00A5">>, <<"p","0">>,
       <<"U+00E6","U+2022","U+2026","U+00E9","U+0161","U+0153">>,
       <<"U+00E5","U+00AE","U+2022","U+00E6","U+0153","U+00BA">> >>
high ==
    << <<"h","i","g","h">>, <<"i","m","p","o","r","t","a","n","t">>, <<"U+00E5","U+2018","U+0160","U+00E8","U+00AD","U+00A6">>,
       <<"U+00E8","U+00AD","U+00A6","U+00E5","U+2018","U+0160">>,
       <<"U+00E9","U+00A3","U+00E9","U+2122","U+00A9">>,
       <<"U+00E5","U+00BC","U+201A","U+00E5","U+00B8","U+00B8">>, <<"i","m","p","o","r","t","a","n","t">> >>

\* truth value of a Python list; a missing key yields None, modelled by <<>>
Truthy(v) == v # <<>>

\* assess_importance_advanced with the high keywords tried first
AssessAdvancedHighFirst(subject, content) ==
    LET text == Lower(subject \o <<" ">> \o Get(content, "text", <<>>))
    IN  IF AnyIn(high, text) THEN "high"
        ELSE IF AnyIn(critical, text) THEN "critical"
        ELSE IF Truthy(Get(Get(content, "structured_data", <<>>), "alerts", <<>>))
             THEN "high"
        ELSE "normal"

assess_importance_advanced(subject, content) ==
    LET text == Lower(subject \o <<" ">> \o Get(content, "text", <<>>))
    IN  IF AnyIn(critical, text) THEN "critical"
        ELSE IF AnyIn(high, text) THEN "high"
        ELSE IF Truthy(Get(Get(content, "structured_data", <<>>), "alerts", <<>>))
             THEN "high"
        ELSE "normal"

\* ------------------------------------------------------------------------
\* The classifiers applied to one message (inputs drawn from bounded sets)
\* ------------------------------------------------------------------------
\* longest subject, in words
MaxWords == 2

SubjectWords ==
    << <<"u","r","g","e","n","t">>, <<"B","u","d","g","e","t">>, <<"u","p","d","a","t","e">>, <<"R","e","p","o","r","t">>, <<"c","a","p","a","c","i","t","y">>, <<"C","h","e","c","k">>,
       <<"a","l","e","r","t">>, <<"c","o","s","t">>, <<"r","i","s","k">>, <<"S","e","a","r","c","h">> >>

RECURSIVE JoinWords(_)
JoinWords(ws) ==
    IF ws = <<>> THEN <<>>
    ELSE IF Len(ws) = 1 THEN SubjectWords[ws[1]]
    ELSE SubjectWords[ws[1]] \o <<" ">> \o JoinWords(Tail(ws))

Subjects ==
    {JoinWords(ws) : ws \in UNION {[1..n -> 1..Len(SubjectWords)] : n \in 0..MaxWords}}

BodyTexts == {<<>>, <<"I","m","p","o","r","t","a","n","t",":"," ","p","l","a","n"," ","r","e","v","i","e","w">>, <<"C","P","U"," ","H","I","G","H">>}

\* content['structured_data']: {} without an HTML part, else the dict of
\* parse_html_data, of which the classifier reads 'alerts'
StructuredChoices ==
    {<<>>, [alerts |-> <<>>], [alerts |-> <<<<"d","i","s","k"," ","w","a","r","n","i","n","g"," ","o","n"," ","n","o","d","e"," ","7">>>>]}

Contents ==
    {[text |-> b, structured_data |-> sd] : b \in BodyTexts, sd \in StructuredChoices}

\* the classifiers are applied once to each input; the tables hold the results
CountingTable ==
    [s \in Subjects |-> [b \in BodyTexts |-> assess_importance(s, b)]]
TypeTable ==
    [s \in Subjects |-> [b \in BodyTexts |-> classify_email_type(s, b)]]
AdvancedTable ==
    [s \in Subjects |-> [c \in Contents |-> assess_importance_advanced(s, c)]]

ClassifyInit ==
    /\ msg_subject \in Subjects
    /\ msg_content \in Contents
    /\ classified = {}
    /\ importance_counting = ""
    /\ msg_type = ""
    /\ importance_advanced = ""

\* the input of the classifiers when no message is being classified
ClassifyIdle ==
    /\ msg_subject = <<>>
    /\ msg_content = [text |-> <<>>, structured_data |-> <<>>]
    /\ classified = {}
    /\ importance_counting = ""
    /\ msg_type = ""
    /\ importance_advanced = ""

\* EmailDailyReport.parse_email: 'importance': self.assess_importance(subject, body)
AssessImportance ==
    /\ "counting" \notin classified
    /\ importance_counting' = CountingTable[msg_subject][msg_content.text]
    /\ classified' = classified \cup {"counting"}
    /\ UNCHANGED <<msg_subject, msg_content, msg_type, importance_advanced>>
    /\ UNCHANGED <<run_vars, content_vars, trend_vars, html_vars, advisor_vars>>

\* TencentAdvisorAnalyzer.parse_email_full: email_type = self.classify_email_type(...)
ClassifyEmailType ==
    /\ "type" \notin classified
    /\ msg_type' = TypeTable[msg_subject][msg_content.text]
    /\ classified' = classified \cup {"type"}
    /\ UNCHANGED <<msg_subject, msg_content, importance_counting, importance_advanced>>
    /\ UNCHANGED <<run_vars, content_vars, trend_vars, html_vars, advisor_vars>>

\* TencentAdvisorAnalyzer.parse_email_full: importance = self.assess_importance_advanced(...)
AssessImportanceAdvanced ==
    /\ "advanced" \notin classified
    /\ importance_advanced' = AdvancedTable[msg_subject][msg_content]
    /\ classified' = classified \cup {"advanced"}
    /\ UNCHANGED <<msg_subject, msg_content, importance_counting, msg_type>>
    /\ UNCHANGED <<run_vars, content_vars, trend_vars, html_vars, advisor_vars>>

ClassifyNext ==
    \/ AssessImportance
    \/ ClassifyEmailType
    \/ AssessImportanceAdvanced

\* ------------------------------------------------------------------------
\* HTMLTextExtractor (scripts/tencent_advisor_analyzer.py), fed one parser
\* event at a time
\* ------------------------------------------------------------------------
\* number of parser events fed to one extractor
MaxEvents == 5

StartTags == {"script", "style", "a", "p"}
EndTags == {"script", "style", "p"}

\* attribute lists of a start tag, as (name, value) pairs in source order
AttrChoices ==
    << <<>>,
       << <<"href", "https://console/a">> >>,
       << <<"class", "btn">>, <<"href", "https://console/b">> >>,
       << <<"href", "https://console/a">>, <<"href", "https://console/b">> >> >>

DataChoices == {<<"i","g","n","o","r","e","d">>, <<" ","\n">>, <<" ","A","P","P","I","D",":"," ","1","2","3","4","5"," ">>}

\* dict(attrs): a later pair replaces an earlier pair of the same name
RECURSIVE DictOf(_)
DictOf(attrs) ==
    IF attrs = <<>> THEN <<>>
    ELSE LET last == attrs[Len(attrs)]
             rest == DictOf(SubSeq(attrs, 1, Len(attrs) - 1))
         IN  (last[1] :> last[2]) @@ rest

\* ' '.join(parts)
RECURSIVE JoinSpace(_)
JoinSpace(parts) ==
    IF parts = <<>> THEN <<>>
    ELSE IF Len(parts) = 1 THEN parts[1]
    ELSE parts[1] \o <<" ">> \o JoinSpace(Tail(parts))

\* HTMLTextExtractor.get_text
get_text == JoinSpace(text_parts)

\* HTMLTextExtractor.get_links
get_links == links

\* HTMLTextExtractor.__init__
HtmlInit ==
    /\ text_parts = <<>>
    /\ links = <<>>
    /\ in_script = FALSE
    /\ in_style = FALSE
    /\ current_tag = "None"
    /\ events = 0
    /\ open_raw = {}
    /\ data_log = <<>>
    /\ anchor_log = <<>>

\* the changes of the record of what was fed: the raw-text elements that are
\* open (a script or style element holds no element, it extends from its start
\* tag to the next end tag of its name), the text events with whether one was
\* open, the anchors' attributes
LogStart(tag, attrs) ==
    /\ events' = events + 1
    /\ open_raw' = IF tag \in {"script", "style"} THEN open_raw \cup {tag} ELSE open_raw
    /\ anchor_log' = IF tag = "a" THEN Append(anchor_log, attrs) ELSE anchor_log
    /\ UNCHANGED data_log

LogEnd(tag) ==
    /\ events' = events + 1
    /\ open_raw' = open_raw \ {tag}
    /\ UNCHANGED <<data_log, anchor_log>>

LogData(data) ==
    /\ events' = events + 1
    /\ data_log' = Append(data_log, [data |-> data, inside |-> open_raw # {}])
    /\ UNCHANGED <<open_raw, anchor_log>>

handle_starttag(tag, attrs) ==
    /\ current_tag' = tag
    /\ IF tag \in {"script", "style"}
       THEN /\ in_script' = IF tag = "script" THEN TRUE ELSE in_script
            /\ in_style' = IF tag = "script" THEN in_style ELSE TRUE
            /\ UNCHANGED links
       ELSE /\ UNCHANGED <<in_script, in_style>>
            /\ links' = IF tag = "a" /\ "href" \in DOMAIN DictOf(attrs)
                        THEN Append(links, DictOf(attrs)["href"])
                        ELSE links
    /\ UNCHANGED text_parts

handle_endtag(tag) ==
    /\ in_script' = IF tag = "script" THEN FALSE ELSE in_script
    /\ in_style' = IF tag = "script" THEN in_style
                   ELSE IF tag = "style" THEN FALSE ELSE in_style
    /\ current_tag' = "None"
    /\ UNCHANGED <<text_parts, links>>

\* handle_data appending the text whatever the flags say
HandleDataUnguarded(data) ==
    /\ text_parts' = IF Strip(data) # <<>> THEN Append(text_parts, Strip(data))
                     ELSE text_parts
    /\ UNCHANGED <<links, in_script, in_style, current_tag>>

handle_data(data) ==
    /\ text_parts' = IF ~in_script /\ ~in_style /\ Strip(data) # <<>>
                     THEN Append(text_parts, Strip(data))
                     ELSE text_parts
    /\ UNCHANGED <<links, in_script, in_style, current_tag>>

HandleStarttag ==
    /\ events < MaxEvents
    /\ \E tag \in StartTags, a \in 1..Len(AttrChoices) :
          /\ (tag \in {"script", "style"} => a = 1)
          /\ handle_starttag(tag, AttrChoices[a])
          /\ LogStart(tag, AttrChoices[a])
    /\ UNCHANGED <<run_vars, content_vars, trend_vars, classify_vars, advisor_vars>>

HandleEndtag ==
    /\ events < MaxEvents
    /\ \E tag \in EndTags : handle_endtag(tag) /\ LogEnd(tag)
    /\ UNCHANGED <<run_vars, content_vars, trend_vars, classify_vars, advisor_vars>>

HandleData ==
    /\ events < MaxEvents
    /\ \E data \in DataChoices : handle_data(data) /\ LogData(data)
    /\ UNCHANGED <<run_vars, content_vars, trend_vars, classify_vars, advisor_vars>>

HtmlNext ==
    \/ HandleStarttag
    \/ HandleEndtag
    \/ HandleData

\* ------------------------------------------------------------------------
\* Advisor analyzer (scripts/tencent_advisor_analyzer.py) and its heartbeat
\* entry point (scripts/heartbeat_hook.py)
\* ------------------------------------------------------------------------
\* The mailbox of the advisor runs: subject, date and Content Bundle of each
\* message.  structured_data is {} for a message without HTML part and the
\* dict of parse_html_data otherwise (<<"None">> stands for a None value).
NoneValue == <<"None">>

AdvisorInbox ==
    << [subject |-> <<"I","n","s","p","e","c","t","i","o","n"," ","r","e","s","u","l","t">>,
        date |-> <<"2","0","2","6","-","0","1","-","0","5","T","0","8",":","0","0",":","0","0">>,
        content |-> [text |-> <<"T","w","o"," ","i","m","p","o","r","t","a","n","t"," ","f","i","n","d","i","n","g","s","!"," ","S","e","e"," ","c","o","n","s","o","l","e">>,
                     structured_data |->
                        [app_id |-> NoneValue, architecture_id |-> NoneValue,
                         metrics |-> <<>>, alerts |-> <<>>,
                         recommendations |-> <<<<"r","e","c","o","m","m","e","n","d"," ","r","e","s","i","z","i","n","g"," ","t","h","e"," ","d","i","s","k">>>>,
                         report_links |-> <<>>]]],
       [subject |-> <<"C","a","p","a","c","i","t","y"," ","a","l","e","r","t"," ","f","o","r"," ","a","r","c","h","-","7">>,
        date |-> <<"2","0","2","6","-","0","1","-","0","5","T","0","9",":","0","0",":","0","0">>,
        content |-> [text |-> <<"C","P","U"," ","u","s","a","g","e"," ","c","r","i","t","i","c","a","l","."," ","S","c","a","l","e"," ","o","u","t"," ","n","o","w">>,
                     structured_data |->
                        [app_id |-> <<"1","2","3","4","5">>, architecture_id |-> <<"a","r","c","h","-","7">>,
                         metrics |-> <<<<"C","P","U","9","5","%">>>>,
                         alerts |-> <<<<"C","P","U"," ","u","s","a","g","e"," ","c","r","i","t","i","c","a","l"," ","o","n"," ","n","o","d","e"," ","7">>>>,
                         recommendations |-> <<>>,
                         report_links |-> <<<<"h","t","t","p","s",":","/","/","c","o","n","s","o","l","e","/","a","r","c","h","-","7">>>>]]],
       [subject |-> <<"M","o","n","t","h","l","y"," ","b","i","l","l","i","n","g">>,
        date |-> <<"2","0","2","6","-","0","1","-","0","5","T","1","0",":","0","0",":","0","0">>,
        content |-> [text |-> <<"N","o","t","h","i","n","g"," ","t","o"," ","p","a","y">>, structured_data |-> <<>>]] >>

AdvisorSearchResults ==
    UNION {{ids \in [1..n -> 1..Len(AdvisorInbox)] : Ascending(ids)} : n \in 0..MaxEmails}

\* characters of the class that re.split cuts the text at
SentenceEnders ==
    {"U+00E3", "U+20AC", "U+201A", "U+00EF", "U+00BC", "U+0178", ".", "!", "?"}

\* re.split(...)[0]: the text before the first character of the class
FirstSentence(text) ==
    LET cuts == {i \in 1..Len(text) : text[i] \in SentenceEnders}
    IN  IF cuts = {} THEN text ELSE SubSeq(text, 1, MinOf(cuts) - 1)

\* longest general summary that is not cut
GeneralSummaryLimit == 100

\* seq[:n]
Take(seq, n) == SubSeq(seq, 1, Min(n, Len(seq)))

\* str() of a value placed in an f-string
Str(v) == IF v = NoneValue THEN <<"N","o","n","e">> ELSE v

\* the summary of extract_key_information; the fixed words of a summary are
\* named by its form, the values placed in it are kept
KeySummary(content, email_type) ==
    LET structured == Get(content, "structured_data", <<>>)
        text == Get(content, "text", <<>>)
    IN  IF email_type = "capacity_report"
        THEN [form |-> "capacity",
              arch_id |-> Str(Get(structured, "architecture_id", <<"u","n","k","n","o","w","n">>)),
              app_id |-> Str(Get(structured, "app_id", <<"u","n","k","n","o","w","n">>))]
        ELSE IF email_type = "inspection_report" THEN [form |-> "inspection"]
        ELSE IF email_type = "alert"
        THEN IF Truthy(Get(structured, "alerts", <<>>))
             THEN [form |-> "alert", count |-> Len(structured.alerts)]
             ELSE [form |-> "empty"]
        ELSE LET first == FirstSentence(text)
             IN  [form |-> "text",
                  text |-> IF Len(first) > GeneralSummaryLimit
                           THEN SubSeq(first, 1, GeneralSummaryLimit) \o <<".",".",".">>
                           ELSE first]

KeyHighlights(content, email_type) ==
    LET structured == Get(content, "structured_data", <<>>)
    IN  IF email_type = "capacity_report"
        THEN IF Truthy(Get(structured, "metrics", <<>>))
             THEN << [form |-> "metrics", metrics |-> Take(structured.metrics, 3)] >>
             ELSE <<>>
        ELSE IF email_type = "inspection_report"
        THEN Take(Get(structured, "recommendations", <<>>), 2)
        ELSE IF email_type = "alert"
        THEN Take(Get(structured, "alerts", <<>>), 3)
        ELSE <<>>

\* every action pattern starts with a literal outside ASCII, which the texts
\* of AdvisorInbox do not hold: re.findall returns no match
ActionItems(text) == <<>>

extract_key_information(subject, content, email_type) ==
    [summary |-> KeySummary(content, email_type),
     highlights |-> KeyHighlights(content, email_type),
     action_items |-> ActionItems(Get(content, "text", <<>>)),
     dashboard_links |->
        Take(Get(Get(content, "structured_data", <<>>), "report_links", <<>>), 3)]

\* the dict parse_email_full returns for a fetched message ('from' and
\* 'size' are read by nothing downstream and are left out)
parse_email_full(email_id) ==
    LET raw == AdvisorInbox[email_id]
        type == classify_email_type(raw.subject, raw.content.text)
    IN  [id |-> email_id,
         subject |-> raw.subject,
         date |-> raw.date,
         type |-> type,
         importance |-> assess_importance_advanced(raw.subject, raw.content),
         content |-> raw.content,
         key_info |-> extract_key_information(raw.subject, raw.content, type)]

\* parse_email_full is applied once to each message of the mailbox
ParsedFullTable == [i \in 1..Len(AdvisorInbox) |-> parse_email_full(i)]

RECURSIVE Concat(_)
Concat(seqs) == IF seqs = <<>> THEN <<>> ELSE Head(seqs) \o Concat(Tail(seqs))

NoEmailsDigest == [status |-> "no_emails", details |-> <<>>]

\* the dict generate_intelligent_report builds ('generated_at' and
\* 'period_hours' carry the clock and the time range and are left out; the
\* summary sentence is made of total_emails and the counts of by_type)
IntelligentReport(mails) ==
    IF mails = <<>> THEN NoEmailsDigest
    ELSE LET IsAttention(e) == e.importance \in {"critical", "high"}
             attention == SelectSeq(mails, IsAttention)
             types == {mails[i].type : i \in 1..Len(mails)}
         IN  [status |-> "success",
              total_emails |-> Len(mails),
              by_type |-> [t \in types |->
                              LET OfType(e) == e.type = t
                              IN  SelectSeq(mails, OfType)],
              attention_required |->
                  [i \in 1..Len(attention) |->
                      [subject |-> attention[i].subject,
                       type |-> attention[i].type,
                       importance |-> attention[i].importance,
                       reason |-> attention[i].key_info.summary]],
              highlights |-> Concat([i \in 1..Len(mails) |-> mails[i].key_info.highlights]),
              action_items |-> Concat([i \in 1..Len(mails) |-> mails[i].key_info.action_items]),
              details |->
                  [i \in 1..Len(mails) |->
                      [subject |-> mails[i].subject,
                       type |-> mails[i].type,
                       importance |-> mails[i].importance,
                       summary |-> mails[i].key_info.summary,
                       time |-> mails[i].date,
                       attachments |-> <<>>,
                       links |-> mails[i].key_info.dashboard_links]]]

\* the value run returns: the rendering of the report in the chosen format
RenderOutput(format, rep) == [kind |-> format, report |-> rep]

\* the value run returns from its exception handler
FailedDigest(error) == [kind |-> "failed", error |-> error]

\* heartbeat_check with the high items listed before the critical ones
HeartbeatHighFirst(mails) ==
    LET IsCritical(e) == e.importance = "critical"
        IsHigh(e) == e.importance = "high"
        critical_items == SelectSeq(mails, IsCritical)
        high_items == SelectSeq(mails, IsHigh)
        listed == high_items \o critical_items
    IN  IF listed = <<>> THEN None
        ELSE [type |-> "tencent_advisor_alert",
              critical_count |-> Len(critical_items),
              high_count |-> Len(high_items),
              items |-> [i \in 1..Len(listed) |->
                            [subject |-> listed[i].subject,
                             type |-> listed[i].type,
                             importance |-> listed[i].importance,
                             summary |-> listed[i].key_info.summary,
                             time |-> listed[i].date]]]

\* what heartbeat_check returns once fetch_emails has returned the emails
heartbeat_check(mails) ==
    LET IsCritical(e) == e.importance = "critical"
        IsHigh(e) == e.importance = "high"
        critical_items == SelectSeq(mails, IsCritical)
        high_items == SelectSeq(mails, IsHigh)
        listed == critical_items \o high_items
    IN  IF listed = <<>> THEN None
        ELSE [type |-> "tencent_advisor_alert",
              critical_count |-> Len(critical_items),
              high_count |-> Len(high_items),
              items |-> [i \in 1..Len(listed) |->
                            [subject |-> listed[i].subject,
                             type |-> listed[i].type,
                             importance |-> listed[i].importance,
                             summary |-> listed[i].key_info.summary,
                             time |-> listed[i].date]]]

\* outcomes of writing a file: written, open() raised, the write raised
FileOutcomes == {"ok", "open_failed", "write_failed"}

\* the file after open(path, 'w') and a dump of the data with that outcome
WriteFile(file, data, outcome) ==
    IF outcome = "ok" THEN [exists |-> TRUE, content |-> data]
    ELSE IF outcome = "open_failed" THEN file
    ELSE [exists |-> TRUE, content |-> [truncated |-> TRUE]]

AdvisorInit ==
    /\ adv_pc = "idle"
    /\ adv_entry = "none"
    /\ adv_runs = 0
    /\ adv_mail = "none"
    /\ adv_ids = <<>>
    /\ adv_pos = 1
    /\ adv_emails = <<>>
    /\ adv_report = None
    /\ adv_output = None
    /\ report_file = [exists |-> FALSE, content |-> None]
    /\ notification = None
    /\ stdout = None
    /\ exit_code = -1

\* an entry point is started: TencentAdvisorAnalyzer.run (from main) or
\* heartbeat_check; fetch_emails calls connect_to_mailbox, which returns ...
AdvStart(entry, next_pc, next_mail) ==
    /\ adv_pc \in {"idle", "done"}
    /\ adv_runs < MaxRuns
    /\ adv_entry' = entry
    /\ adv_pc' = next_pc
    /\ adv_mail' = next_mail
    /\ adv_ids' = <<>>
    /\ adv_pos' = 1
    /\ adv_emails' = <<>>
    /\ adv_report' = None
    /\ adv_output' = None
    /\ notification' = None
    /\ stdout' = None
    /\ exit_code' = -1
    /\ UNCHANGED <<run_vars, content_vars, trend_vars, classify_vars, html_vars>>

AdvConnectOk ==
    /\ \E entry \in {"run", "heartbeat"} : AdvStart(entry, "connected", "open")
    /\ UNCHANGED <<adv_runs, report_file>>

\* ... or raises: the handler of fetch_emails logs it and returns []
AdvConnectFail ==
    /\ \E entry \in {"run", "heartbeat"} : AdvStart(entry, "fetched", "none")
    /\ UNCHANGED <<adv_runs, report_file>>

\* mail.search answers a status other than OK: logout, return []
AdvSearchNotOk ==
    /\ adv_pc = "connected"
    /\ adv_mail' = "closed"
    /\ adv_pc' = "fetched"
    /\ UNCHANGED <<adv_entry, adv_runs, adv_ids, adv_pos, adv_emails, adv_report,
                   adv_output, report_file, notification, stdout, exit_code>>
    /\ UNCHANGED <<run_vars, content_vars, trend_vars, classify_vars, html_vars>>

\* mail.search raises: the handler of fetch_emails returns []
AdvSearchRaises ==
    /\ adv_pc = "connected"
    /\ adv_pc' = "fetched"
    /\ UNCHANGED <<adv_entry, adv_runs, adv_mail, adv_ids, adv_pos, adv_emails,
                   adv_report, adv_output, report_file, notification, stdout, exit_code>>
    /\ UNCHANGED <<run_vars, content_vars, trend_vars, classify_vars, html_vars>>

\* mail.search answers OK with a list of handles, which may be empty
AdvSearchOk ==
    /\ adv_pc = "connected"
    /\ \E ids \in AdvisorSearchResults : adv_ids' = ids
    /\ adv_pc' = "parsing"
    /\ UNCHANGED <<adv_entry, adv_runs, adv_mail, adv_pos, adv_emails, adv_report,
                   adv_output, report_file, notification, stdout, exit_code>>
    /\ UNCHANGED <<run_vars, content_vars, trend_vars, classify_vars, html_vars>>

\* one iteration of the loop of fetch_emails: parse_email_full returns the
\* dict or None
AdvParseEmail ==
    /\ adv_pc = "parsing"
    /\ adv_pos <= Len(adv_ids)
    /\ \E fetched \in BOOLEAN :
        adv_emails' = IF fetched THEN Append(adv_emails, ParsedFullTable[adv_ids[adv_pos]])
                      ELSE adv_emails
    /\ adv_pos' = adv_pos + 1
    /\ UNCHANGED <<adv_entry, adv_pc, adv_runs, adv_mail, adv_ids, adv_report,
                   adv_output, report_file, notification, stdout, exit_code>>
    /\ UNCHANGED <<run_vars, content_vars, trend_vars, classify_vars, html_vars>>

\* mail.logout() behind the loop, then return emails
AdvLogout ==
    /\ adv_pc = "parsing"
    /\ adv_pos > Len(adv_ids)
    /\ adv_mail' = "closed"
    /\ adv_pc' = "fetched"
    /\ UNCHANGED <<adv_entry, adv_runs, adv_ids, adv_pos, adv_emails, adv_report,
                   adv_output, report_file, notification, stdout, exit_code>>
    /\ UNCHANGED <<run_vars, content_vars, trend_vars, classify_vars, html_vars>>

\* mail.logout() raises: the handler of fetch_emails returns []
AdvLogoutRaises ==
    /\ adv_pc = "parsing"
    /\ adv_pos > Len(adv_ids)
    /\ adv_emails' = <<>>
    /\ adv_pc' = "fetched"
    /\ UNCHANGED <<adv_entry, adv_runs, adv_mail, adv_ids, adv_pos, adv_report,
                   adv_output, report_file, notification, stdout, exit_code>>
    /\ UNCHANGED <<run_vars, content_vars, trend_vars, classify_vars, html_vars>>

\* run: generate_intelligent_report builds the report and, when there are
\* emails, dumps it to latest_report.json outside any try; an error of the
\* dump reaches the handler of run, which returns the failure digest
AdvGenerateReport ==
    /\ adv_pc = "fetched"
    /\ adv_entry = "run"
    /\ adv_report' = IntelligentReport(adv_emails)
    /\ \E outcome \in FileOutcomes :
        /\ adv_emails = <<>> => outcome = "ok"
        /\ report_file' = IF adv_emails = <<>> THEN report_file
                          ELSE WriteFile(report_file, IntelligentReport(adv_emails), outcome)
        /\ IF outcome = "ok"
           THEN /\ adv_pc' = "reported"
                /\ UNCHANGED <<adv_output, adv_runs, exit_code>>
           ELSE /\ adv_output' = FailedDigest("report_file")
                /\ adv_pc' = "done"
                /\ adv_runs' = adv_runs + 1
                /\ exit_code' = 0
    /\ UNCHANGED <<adv_entry, adv_mail, adv_ids, adv_pos, adv_emails,
                   notification, stdout>>
    /\ UNCHANGED <<run_vars, content_vars, trend_vars, classify_vars, html_vars>>

\* run: the report is rendered in the chosen format and, when an output
\* file is given, written to it; an error of that write also reaches the
\* handler of run.  main prints what run returns and ends with code 0.
AdvFormatOutput ==
    /\ adv_pc = "reported"
    /\ \E format \in {"markdown", "json"}, output_file \in {"none", "ok", "failed"} :
        adv_output' = IF output_file = "failed" THEN FailedDigest("output_file")
                      ELSE RenderOutput(format, adv_report)
    /\ adv_pc' = "done"
    /\ adv_runs' = adv_runs + 1
    /\ exit_code' = 0
    /\ UNCHANGED <<adv_entry, adv_mail, adv_ids, adv_pos, adv_emails, adv_report,
                   report_file, notification, stdout>>
    /\ UNCHANGED <<run_vars, content_vars, trend_vars, classify_vars, html_vars>>

\* heartbeat_check behind fetch_emails, and the __main__ block: the
\* notification is printed and the exit code is 1, or HEARTBEAT_OK and 0
HeartbeatCheck ==
    /\ adv_pc = "fetched"
    /\ adv_entry = "heartbeat"
    /\ notification' = heartbeat_check(adv_emails)
    /\ stdout' = IF heartbeat_check(adv_emails) # None
                 THEN [json |-> heartbeat_check(adv_emails)]
                 ELSE [line |-> "HEARTBEAT_OK"]
    /\ exit_code' = IF heartbeat_check(adv_emails) # None THEN 1 ELSE 0
    /\ adv_pc' = "done"
    /\ adv_runs' = adv_runs + 1
    /\ UNCHANGED <<adv_entry, adv_mail, adv_ids, adv_pos, adv_emails, adv_report,
                   adv_output, report_file>>
    /\ UNCHANGED <<run_vars, content_vars, trend_vars, classify_vars, html_vars>>

AdvisorNext ==
    \/ AdvConnectOk
    \/ AdvConnectFail
    \/ AdvSearchNotOk
    \/ AdvSearchRaises
    \/ AdvSearchOk
    \/ AdvParseEmail
    \/ AdvLogout
    \/ AdvLogoutRaises
    \/ AdvGenerateReport
    \/ AdvFormatOutput
    \/ HeartbeatCheck

\* ------------------------------------------------------------------------
\* Content Extractor (scripts/tencent_advisor_analyzer.py): parse_email_full
\* on the messages of one fetch.  A header is the list of segments that
\* decode_header returns for it, a payload the list of its bytes; "xFF" is a
\* byte that is valid in neither UTF-8 nor ASCII.  A tag of an HTML payload
\* is one element of the list.
\* ------------------------------------------------------------------------
\* most parts of a multipart message
MaxParts == 2
\* number of messages one fetch parses
MaxFetched == 2

InvalidByte == "xFF"
KnownCharsets == {"utf-8", "ascii"}

Decoded(text) == [kind |-> "str", text |-> text]

\* bytes.decode('utf-8', errors='ignore')
DecodeIgnore(payload) == SelectSeq(payload, LAMBDA b : b # InvalidByte)

\* bytes.decode(encoding): the text, or the exception it raises
DecodeStrict(payload, encoding) ==
    IF encoding \notin KnownCharsets THEN Raised("LookupError")
    ELSE IF \E i \in 1..Len(payload) : payload[i] = InvalidByte
         THEN Raised("UnicodeDecodeError")
    ELSE Decoded(payload)

\* one (part, encoding) pair of the loop of decode_mime_words
DecodeSegment(segment) ==
    IF segment.is_bytes
    THEN IF segment.encoding # ""
         THEN DecodeStrict(segment.part, segment.encoding)
         ELSE Decoded(DecodeIgnore(segment.part))
    ELSE Decoded(segment.part)

\* the loop of decode_mime_words and the final join; an exception of a
\* segment leaves the loop
RECURSIVE DecodeSegments(_)
DecodeSegments(segments) ==
    IF segments = <<>> THEN Decoded(<<>>)
    ELSE LET first == DecodeSegment(Head(segments))
             rest == DecodeSegments(Tail(segments))
         IN  IF first.kind = "raised" THEN first
             ELSE IF rest.kind = "raised" THEN rest
             ELSE Decoded(first.text \o rest.text)

decode_mime_words(header) ==
    IF header = <<>> THEN Decoded(<<>>) ELSE DecodeSegments(header)

HtmlTags == {"<p>", "</p>", "<script>", "</script>", "<style>", "</style>"}

\* handle_data of HTMLTextExtractor on the text run collected so far
FlushData(ex) ==
    LET text == Strip(ex.run)
    IN  [ex EXCEPT !.run = <<>>,
                   !.text = IF ~ex.in_script /\ ~ex.in_style /\ text # <<>>
                            THEN Append(@, text) ELSE @]

\* HTMLTextExtractor.feed: text between two tags is one handle_data call
RECURSIVE FeedFrom(_, _, _)
FeedFrom(html, i, ex) ==
    IF i > Len(html) THEN FlushData(ex)
    ELSE IF html[i] \notin HtmlTags
         THEN FeedFrom(html, i + 1, [ex EXCEPT !.run = Append(@, html[i])])
    ELSE LET flushed == FlushData(ex)
         IN  FeedFrom(html, i + 1,
                 [flushed EXCEPT
                     !.in_script = IF html[i] = "<script>" THEN TRUE
                                   ELSE IF html[i] = "</script>" THEN FALSE ELSE @,
                     !.in_style = IF html[i] = "<style>" THEN TRUE
                                  ELSE IF html[i] = "</style>" THEN FALSE ELSE @])

\* extractor.get_text() after extractor.feed(html)
HtmlText(html) ==
    JoinSpace(FeedFrom(html, 1,
        [run |-> <<>>, text |-> <<>>, in_script |-> FALSE, in_style |-> FALSE]).text)

\* re.sub(r'[^\w\-\.]', '_', filename)
SafeFilename(filename) ==
    [i \in 1..Len(filename) |->
        IF IsWordChar(filename[i]) \/ filename[i] \in {"-", "."}
        THEN filename[i] ELSE "_"]

\* save_attachment: the descriptor returned (None when nothing is saved) and
\* the file written, as the name under attachments_dir and the bytes
save_attachment(part, email_id) ==
    LET decoded == decode_mime_words(part.filename)
        safe_filename == SafeFilename(decoded.text)
        unique_name == <<ToString(email_id), "_">> \o safe_filename
    IN  IF part.filename = <<>> \/ decoded.kind = "raised" \/ part.payload = <<>>
        THEN [info |-> None, writes |-> <<>>]
        ELSE [info |-> [original_name |-> decoded.text,
                        saved_name |-> unique_name,
                        size |-> Len(part.payload),
                        type |-> part.content_type],
              writes |-> <<[path |-> unique_name, payload |-> part.payload]>>]

EmptyContent ==
    [content |-> [text |-> <<>>, html |-> <<>>, html_text |-> None, attachments |-> <<>>],
     writes |-> <<>>]

\* one part of the walk of extract_all_content (links and structured_data
\* follow the HTML alone and are left out)
ContentPart(acc, part, email_id) ==
    LET saved == save_attachment(part, email_id)
    IN  IF Contains(<<"a","t","t","a","c","h","m","e","n","t">>, part.disposition)
        THEN [acc EXCEPT
                !.content.attachments = IF saved.info # None THEN Append(@, saved.info) ELSE @,
                !.writes = @ \o saved.writes]
        ELSE IF part.content_type = "text/plain"
        THEN IF part.payload # <<>>
             THEN [acc EXCEPT !.content.text = DecodeIgnore(part.payload)]
             ELSE acc
        ELSE IF part.content_type = "text/html"
        THEN IF part.payload # <<>>
             THEN [acc EXCEPT !.content.html = DecodeIgnore(part.payload),
                              !.content.html_text = HtmlText(DecodeIgnore(part.payload))]
             ELSE acc
        ELSE acc

RECURSIVE ContentWalk(_, _, _)
ContentWalk(acc, parts, email_id) ==
    IF parts = <<>> THEN acc
    ELSE ContentWalk(ContentPart(acc, Head(parts), email_id), Tail(parts), email_id)

\* the single part of a message that is not multipart
ContentSingle(acc, part) ==
    IF part.payload = <<>> THEN acc
    ELSE IF part.content_type = "text/html"
    THEN [acc EXCEPT !.content.html = DecodeIgnore(part.payload),
                     !.content.html_text = HtmlText(DecodeIgnore(part.payload))]
    ELSE [acc EXCEPT !.content.text = DecodeIgnore(part.payload)]

\* extract_all_content: the bundle and the attachment files written (walk
\* also yields the multipart container, which no branch handles)
extract_all_content(message, email_id) ==
    LET acc == IF message.multipart
               THEN ContentWalk(EmptyContent, message.parts, email_id)
               ELSE ContentSingle(EmptyContent, message.parts[1])
    IN  IF acc.content.text = <<>> /\ acc.content.html_text # None
           /\ acc.content.html_text # <<>>
        THEN [acc EXCEPT !.content.text = acc.content.html_text]
        ELSE acc

\* the parts of the explored messages
PlainPart(payload) ==
    [content_type |-> "text/plain", disposition |-> <<>>, filename |-> <<>>,
     payload |-> payload]
AttachmentPart(filename, payload) ==
    [content_type |-> "text/csv", disposition |-> <<"a","t","t","a","c","h","m","e","n","t">>, filename |-> filename,
     payload |-> payload]
Unencoded(text) == <<[part |-> text, encoding |-> "", is_bytes |-> FALSE]>>
Encoded(payload, encoding) == <<[part |-> payload, encoding |-> encoding, is_bytes |-> TRUE]>>

HtmlPart ==
    [content_type |-> "text/html", disposition |-> <<>>, filename |-> <<>>,
     payload |-> <<"<script>", "x", "</script>", "<p>", " ", "H", "i", "</p>">>]

MessageParts ==
    {PlainPart(<<"H","e","l","l","o"," ">>), PlainPart(<<"w","o","r","l","d">>), PlainPart(<<"o", InvalidByte, "k">>),
     HtmlPart,
     AttachmentPart(Unencoded(<<"a"," ","b",".","c","s","v">>), <<"1",",","2">>),
     AttachmentPart(Unencoded(<<"a","_","b",".","c","s","v">>), <<"3",",","4">>),
     AttachmentPart(Encoded(<<"c",".","c","s","v">>, "x-unknown"), <<"5",",","6">>)}

SubjectHeaders ==
    {Unencoded(<<"R","e",":"," ">>) \o Encoded(<<"R","e","p","o","r","t">>, "utf-8"),
     Encoded(<<InvalidByte, "h", "i">>, "utf-8")}

FullMessages ==
    {[subject |-> s, multipart |-> TRUE, parts |-> ps] :
        s \in SubjectHeaders, ps \in SeqsUpTo(MessageParts, MaxParts) \ {<<>>}}
    \cup {[subject |-> s, multipart |-> FALSE, parts |-> <<p>>] :
            s \in SubjectHeaders, p \in {PlainPart(<<"H","e","l","l","o"," ">>), HtmlPart}}

ContentInit ==
    /\ fetched_raw = <<>>
    /\ parsed_full = <<>>
    /\ attachment_writes = <<>>

\* parse_email_full on the next message of the fetch: the subject is decoded,
\* then the content extracted; an exception makes it return None
ParseEmailFull ==
    /\ Len(fetched_raw) < MaxFetched
    /\ \E message \in FullMessages :
        LET email_id == Len(fetched_raw) + 1
            subject == decode_mime_words(message.subject)
            extracted == extract_all_content(message, email_id)
        IN  /\ fetched_raw' = Append(fetched_raw, message)
            /\ IF subject.kind = "raised"
               THEN UNCHANGED <<parsed_full, attachment_writes>>
               ELSE /\ parsed_full' = Append(parsed_full,
                            [id |-> email_id,
                             subject |-> subject.text,
                             content |-> extracted.content])
                    /\ attachment_writes' = attachment_writes \o extracted.writes
    /\ UNCHANGED <<run_vars, trend_vars, classify_vars, html_vars, advisor_vars>>

ContentNext == ParseEmailFull

\* ------------------------------------------------------------------------
\* Specifications
\* ------------------------------------------------------------------------
\* runs of the daily report; the trend analyzer is not called
Init ==
    /\ RunInit
    /\ history = <<>>
    /\ days = 7
    /\ analysed = {}
    /\ volume_trend = None
    /\ keyword_trends = <<>>
    /\ weekly_analysis = None
    /\ weekly_report = None
    /\ ClassifyIdle
    /\ HtmlInit
    /\ AdvisorInit
    /\ ContentInit

Next == RunNext

Spec == Init /\ [][Next]_vars

\* the trend analyzer applied to a loaded history; no run under way
SpecTrendInit == RunInit /\ TrendInit /\ ClassifyIdle /\ HtmlInit /\ AdvisorInit /\ ContentInit

SpecTrendNext == TrendNext

SpecTrend == SpecTrendInit /\ [][SpecTrendNext]_vars

\* the trend analyzer when it is not called
TrendIdle ==
    /\ history = <<>>
    /\ days = 7
    /\ analysed = {}
    /\ volume_trend = None
    /\ keyword_trends = <<>>
    /\ weekly_analysis = None
    /\ weekly_report = None

\* the classifiers applied to one message; no run under way
SpecClassifyInit == RunInit /\ TrendIdle /\ ClassifyInit /\ HtmlInit /\ AdvisorInit /\ ContentInit

SpecClassifyNext == ClassifyNext

SpecClassify == SpecClassifyInit /\ [][SpecClassifyNext]_vars

\* one HTMLTextExtractor fed parser events; no run under way
SpecHtmlInit == RunInit /\ TrendIdle /\ ClassifyIdle /\ HtmlInit /\ AdvisorInit /\ ContentInit

SpecHtmlNext == HtmlNext

SpecHtml == SpecHtmlInit /\ [][SpecHtmlNext]_vars

\* runs of the advisor analyzer and of its heartbeat entry point
SpecAdvisorInit == RunInit /\ TrendIdle /\ ClassifyIdle /\ HtmlInit /\ AdvisorInit /\ ContentInit

SpecAdvisorNext == AdvisorNext

SpecAdvisor == SpecAdvisorInit /\ [][SpecAdvisorNext]_vars

\* parse_email_full on the messages of one fetch; no run under way
SpecContentInit == RunInit /\ TrendIdle /\ ClassifyIdle /\ HtmlInit /\ AdvisorInit /\ ContentInit

SpecContentNext == ContentNext

SpecContent == SpecContentInit /\ [][SpecContentNext]_vars

\* ------------------------------------------------------------------------
\* Properties of the Daily Aggregate and of the History Store (Spec)
\* ------------------------------------------------------------------------
AggregateFields ==
    {"total_emails", "by_importance", "by_category", "key_decisions",
     "urgent_items", "data_points"}

\* C1: whenever extract_key_data has returned, the counts by importance of
\* the aggregate have exactly the keys high, medium and low and add up to
\* total_emails.
ImportanceCountsSumToTotal ==
    key_data # None =>
        /\ DOMAIN key_data.by_importance = {"high", "medium", "low"}
        /\ key_data.by_importance.high + key_data.by_importance.medium
             + key_data.by_importance.low = key_data.total_emails

\* an aggregate of two messages of different importance
ImportanceCountsWitness ==
    /\ key_data # None
    /\ key_data.total_emails = 2
    /\ key_data.by_importance.high = 1
    /\ key_data.by_importance.low = 1

\* C2: whenever extract_key_data has returned, the counts by category of the
\* aggregate (decisions, updates, alerts, general) add up to total_emails.
CategoryCountsSumToTotal ==
    key_data # None =>
        key_data.by_category.decisions + key_data.by_category.updates
          + key_data.by_category.alerts + key_data.by_category.general
          = key_data.total_emails

\* C3: once a run has written history, the persisted document is a list that
\* holds the aggregate of every run that wrote history, oldest first.
HistoryLogRetainsEveryAggregate ==
    (written # <<>> /\ json_load(history_file.toks).ok) =>
        /\ JsonKind(history_file.toks) = "list"
        /\ json_load(history_file.toks).v = written

\* C4: a document that save_history wrote loads back as an aggregate equal,
\* field for field, to the one that was saved.
RoundTripFieldForField ==
    pc = "compared" =>
        LET loaded == json_load(history_file.toks)
        IN  (history_file.exists /\ loaded.ok) =>
                /\ written # <<>>
                /\ DOMAIN loaded.v = AggregateFields
                /\ \A field \in AggregateFields :
                       loaded.v[field] = written[Len(written)][field]

\* an aggregate with a decision, an urgent item and data points (a float with
\* a fraction, a context with a newline) was saved by this run and loads back
RoundTripWitness ==
    /\ pc = "compared"
    /\ history_file.exists
    /\ json_load(history_file.toks).ok
    /\ written # <<>>
    /\ written[Len(written)] = key_data
    /\ key_data.key_decisions # <<>>
    /\ key_data.urgent_items # <<>>
    /\ \E i \in 1..Len(key_data.data_points) :
           /\ key_data.data_points[i].value.e > 0
           /\ Contains(<<"\n">>, key_data.data_points[i].context)

\* the message matches one of the keywords, in subject or body, whatever the case
HasKeyword(keywords, email) ==
    \E k \in 1..Len(keywords) :
        \/ Contains(keywords[k], Lower(email.subject))
        \/ Contains(keywords[k], Lower(email.body))

\* by message number, the first category one of whose keywords the message has
FirstMatchingTable ==
    [i \in 1..Len(Inbox) |->
        IF HasKeyword(decision_keywords, ParsedEmail(i)) THEN "decisions"
        ELSE IF HasKeyword(alert_keywords, ParsedEmail(i)) THEN "alerts"
        ELSE IF HasKeyword(update_keywords, ParsedEmail(i)) THEN "updates"
        ELSE "general"]

FirstMatchingCategory(email) == FirstMatchingTable[email.id]

InList(email, list) == \E i \in 1..Len(list) : list[i] = email

ScenarioSubject == <<"U","r","g","e","n","t",":"," ","B","u","d","g","e","t"," ","D","e","c","i","s","i","o","n"," ","N","e","e","d","e","d">>

\* C10: categorize_emails puts every message in the first category, in the
\* order decisions, alerts, updates, general, one of whose keywords occurs in
\* its subject or body, and in no other category; a message with the subject
\* "Urgent: Budget Decision Needed" is in decisions only.
CategorizeFirstMatchWins ==
    (pc = "done" /\ categories # None) =>
        \A i \in 1..Len(emails) :
            /\ \A c \in {"decisions", "alerts", "updates", "general"} :
                   InList(emails[i], categories[c]) <=> c = FirstMatchingCategory(emails[i])
            /\ emails[i].subject = ScenarioSubject =>
                   /\ InList(emails[i], categories.decisions)
                   /\ ~InList(emails[i], categories.alerts)

\* the message that matches decision and alert keywords has been categorized
\* together with a message that matches alert keywords only
CategorizeWitness ==
    /\ pc = "done"
    /\ categories # None
    /\ \E i \in 1..Len(categories.decisions) :
           /\ categories.decisions[i].subject = ScenarioSubject
           /\ HasKeyword(alert_keywords, categories.decisions[i])
    /\ categories.alerts # <<>>

\* ------------------------------------------------------------------------
\* Properties of the Trend Analyzer (SpecTrend)
\* ------------------------------------------------------------------------
\* total_emails of the last and of the second-to-last day of the history
LatestTotal == Get(history[Len(history)], "total_emails", 0)
PreviousTotal == Get(history[Len(history) - 1], "total_emails", 0)

VolumeAnalysed == "volume" \in analysed /\ Len(history) >= 2

\* C5: when the previous volume is 0 the change rate is 0 and the trend is
\* stable; and classifying the reported change rate again gives the
\* reported trend.
ZeroPreviousIsStable ==
    "volume" \in analysed =>
        /\ VolumeBand(volume_trend.change_rate) = volume_trend.trend
        /\ (Len(history) >= 2 /\ PreviousTotal = 0) =>
               /\ volume_trend.change_rate = [num |-> 0, den |-> 1]
               /\ volume_trend.trend = "stable"

\* the volume rose from 0
ZeroPreviousWitness ==
    /\ VolumeAnalysed
    /\ PreviousTotal = 0
    /\ LatestTotal > 0

\* C6: with a positive previous total the change rate is
\* (latest - previous) / previous * 100 and the trend is the first band that
\* matches in the order stable (|rate| < 5), significantly_increasing
\* (rate > 20), increasing (rate > 5), significantly_decreasing (rate < -20),
\* decreasing; totals 10 then 15 give 50 and significantly_increasing.
VolumeBandsFirstMatch ==
    (VolumeAnalysed /\ PreviousTotal > 0) =>
        LET rate == volume_trend.change_rate
            delta == (LatestTotal - PreviousTotal) * 100
            p == PreviousTotal
        IN  /\ rate.den > 0
            /\ rate.num * p = delta * rate.den
            /\ volume_trend.trend =
                 IF Abs(delta) < 5 * p THEN "stable"
                 ELSE IF delta > 20 * p THEN "significantly_increasing"
                 ELSE IF delta > 5 * p THEN "increasing"
                 ELSE IF delta < -20 * p THEN "significantly_decreasing"
                 ELSE "decreasing"
            /\ (PreviousTotal = 10 /\ LatestTotal = 15) =>
                   /\ rate = [num |-> 50, den |-> 1]
                   /\ volume_trend.trend = "significantly_increasing"

\* totals 10 then 15 have been analysed
VolumeBandsWitness ==
    /\ VolumeAnalysed
    /\ PreviousTotal = 10
    /\ LatestTotal = 15
    /\ volume_trend.trend = "significantly_increasing"

\* C7: when the change rate is exactly 5 or exactly -5 the trend is not stable.
BoundaryIsNotStable ==
    (/\ VolumeAnalysed
     /\ PreviousTotal > 0
     /\ Abs(LatestTotal - PreviousTotal) * 100 = 5 * PreviousTotal) =>
        volume_trend.trend # "stable"

\* totals 20 then 19 have been analysed
BoundaryWitness ==
    /\ VolumeAnalysed
    /\ PreviousTotal = 20
    /\ LatestTotal = 19
    /\ volume_trend.change_rate = [num |-> -5, den |-> 1]

\* the counts a keyword can reach in a window of the explored histories
CountRange == 0..(2 * MaxKeywordDays)

\* C8: a keyword reported as emerging with counts (r, p) is also emerging
\* with every larger recent count and the same previous count.
EmergingIsMonotonic ==
    "keyword" \in analysed =>
        \A i \in 1..Len(keyword_trends) :
            keyword_trends[i].trend = "emerging" =>
                \A r \in CountRange :
                    r > keyword_trends[i].recent_count =>
                        IsEmerging(r, keyword_trends[i].previous_count)

\* a keyword is emerging with the smallest recent count that allows it
EmergingWitness ==
    /\ "keyword" \in analysed
    /\ \E i \in 1..Len(keyword_trends) :
           /\ keyword_trends[i].trend = "emerging"
           /\ keyword_trends[i].recent_count = 2
           /\ keyword_trends[i].previous_count = 1

AllKeywords == {"ai", "budget"}

ReportedAs(keyword, trend) ==
    \E i \in 1..Len(keyword_trends) :
        keyword_trends[i].keyword = keyword /\ keyword_trends[i].trend = trend

\* C9: a keyword is reported emerging exactly when
\* recent > 1.5 * previous and recent >= 2, declining exactly when it occurs
\* in the previous window, recent < 0.5 * previous and previous >= 2; every
\* entry carries both counts, the emerging entries come before the declining
\* ones and no keyword is reported as both.
KeywordTrendRules ==
    ("keyword" \in analysed /\ Len(history) >= 2) =>
        LET recent == recent_keywords_of(history, days)
            previous == previous_keywords_of(history, days)
        IN  /\ \A kw \in AllKeywords :
                   LET r == Count(recent, kw)
                       p == Count(previous, kw)
                   IN  /\ ReportedAs(kw, "emerging") <=> (2 * r > 3 * p /\ r >= 2)
                       /\ ReportedAs(kw, "declining") <=> (p >= 1 /\ 2 * r < p /\ p >= 2)
                       /\ ~(ReportedAs(kw, "emerging") /\ ReportedAs(kw, "declining"))
            /\ \A i \in 1..Len(keyword_trends) :
                   /\ keyword_trends[i].trend \in {"emerging", "declining"}
                   /\ keyword_trends[i].recent_count = Count(recent, keyword_trends[i].keyword)
                   /\ keyword_trends[i].previous_count = Count(previous, keyword_trends[i].keyword)
            /\ \A i, j \in 1..Len(keyword_trends) :
                   (i < j /\ keyword_trends[j].trend = "emerging") =>
                       keyword_trends[i].trend = "emerging"

\* one keyword is emerging with counts 3 and 1, another declining with 1 and 3
KeywordTrendWitness ==
    /\ "keyword" \in analysed
    /\ Len(keyword_trends) = 2
    /\ keyword_trends[1] = [keyword |-> "ai", recent_count |-> 3,
                            previous_count |-> 1, trend |-> "emerging"]
    /\ keyword_trends[2] = [keyword |-> "budget", recent_count |-> 1,
                            previous_count |-> 3, trend |-> "declining"]


\* ------------------------------------------------------------------------
\* Properties of the classifiers (SpecClassify)
\* ------------------------------------------------------------------------
\* the keywords of the list ks that occur, whatever the case, in subject or body
KeywordsPresent(ks, subject, body) ==
    {ks[k] : k \in {j \in 1..Len(ks) :
                       \/ Contains(ks[j], Lower(subject))
                       \/ Contains(ks[j], Lower(body))}}

HighHits ==
    [s \in Subjects |-> [b \in BodyTexts |->
        Cardinality(KeywordsPresent(high_importance_words, s, b))]]
MediumHits ==
    [s \in Subjects |-> [b \in BodyTexts |->
        Cardinality(KeywordsPresent(medium_importance_words, s, b))]]

\* C11: with h and m the numbers of distinct high- and medium-importance
\* keywords present in subject or body, assess_importance returns 'high'
\* exactly when h >= 2, 'medium' exactly when h < 2 and (h >= 1 or m >= 2),
\* 'low' otherwise, and nothing else.
CountingPolicyRule ==
    "counting" \in classified =>
        LET h == HighHits[msg_subject][msg_content.text]
            m == MediumHits[msg_subject][msg_content.text]
        IN  /\ importance_counting \in {"high", "medium", "low"}
            /\ (importance_counting = "high") <=> (h >= 2)
            /\ (importance_counting = "medium") <=> (h < 2 /\ (h >= 1 \/ m >= 2))
            /\ (importance_counting = "low") <=> (h = 0 /\ m < 2)

\* one high-importance keyword, written with a capital, and no medium one
CountingPolicyWitness ==
    /\ "counting" \in classified
    /\ msg_subject = <<"B","u","d","g","e","t"," ","S","e","a","r","c","h">>
    /\ HighHits[msg_subject][msg_content.text] = 1
    /\ MediumHits[msg_subject][msg_content.text] = 0
    /\ importance_counting = "medium"


\* ------------------------------------------------------------------------
\* Properties of HTMLTextExtractor (SpecHtml)
\* ------------------------------------------------------------------------
\* the texts fed outside script and style elements that are not blank,
\* stripped, in the order they were fed
RECURSIVE VisibleTexts(_)
VisibleTexts(log) ==
    IF log = <<>> THEN <<>>
    ELSE LET d == log[Len(log)]
             before == VisibleTexts(SubSeq(log, 1, Len(log) - 1))
         IN  IF ~d.inside /\ Strip(d.data) # <<>>
             THEN Append(before, Strip(d.data))
             ELSE before

\* the pairs of the attribute list that are named href
HrefPairs(attrs) == {i \in 1..Len(attrs) : attrs[i][1] = "href"}

\* the href values of the anchors fed, in the order they were fed
RECURSIVE AnchorHrefs(_)
AnchorHrefs(log) ==
    IF log = <<>> THEN <<>>
    ELSE LET attrs == log[Len(log)]
             before == AnchorHrefs(SubSeq(log, 1, Len(log) - 1))
         IN  IF HrefPairs(attrs) # {}
             THEN Append(before, attrs[CHOOSE i \in HrefPairs(attrs) :
                                          \A j \in HrefPairs(attrs) : j <= i][2])
             ELSE before

\* C12: whatever events were fed, the extracted text holds no text that was
\* fed inside a script or style element and holds, stripped and in order,
\* every non-blank text fed outside them; the links are the href values of
\* the anchors in document order.
ExtractorSkipsScriptAndStyle ==
    /\ text_parts = VisibleTexts(data_log)
    /\ \A i \in 1..Len(text_parts) : Contains(text_parts[i], get_text)
    /\ \A i \in 1..Len(data_log) :
          (data_log[i].inside /\ \A j \in 1..Len(data_log) :
                                    ~data_log[j].inside => data_log[j].data # data_log[i].data)
              => ~Contains(Strip(data_log[i].data), get_text) \/ Strip(data_log[i].data) = <<>>
    /\ get_links = AnchorHrefs(anchor_log)

\* <script>ignored</script><p>APPID: 12345 has been fed
ExtractorWitness ==
    /\ data_log = << [data |-> <<"i","g","n","o","r","e","d">>, inside |-> TRUE],
                     [data |-> <<" ","A","P","P","I","D",":"," ","1","2","3","4","5"," ">>, inside |-> FALSE] >>
    /\ current_tag = "p"
    /\ get_text = <<"A","P","P","I","D",":"," ","1","2","3","4","5">>
    /\ ~Contains(<<"i","g","n","o","r","e","d">>, get_text)


\* ---------------------------------------------------------------------
\* C13: when connecting or authenticating to the mailbox fails, the run is
\* aborted (nothing fetched, nothing written) and run() returns the
\* 'generation failed' digest carrying the error.  Stated for
\* TencentAdvisorAnalyzer.run: a finished run whose connection was never
\* opened has returned the failure digest.
ConnectFailureYieldsFailedDigest ==
    (adv_entry = "run" /\ adv_pc = "done" /\ adv_mail = "none") =>
        /\ adv_emails = <<>>
        /\ adv_output.kind = "failed"

\* ---------------------------------------------------------------------
\* C15: persistence errors never fail the current run's report.  Stated
\* for TencentAdvisorAnalyzer.run: once the report has been computed from
\* at least one message, the only failure digest run() can still return is
\* the one of writing the caller's output file; a failed write of
\* latest_report.json leaves the rendered report as the result.
PersistenceErrorsNeverFailRun ==
    (adv_entry = "run" /\ adv_pc = "done" /\ adv_emails # <<>>) =>
        \/ adv_output \in {RenderOutput(f, IntelligentReport(adv_emails)) :
                              f \in {"markdown", "json"}}
        \/ adv_output = FailedDigest("output_file")

\* ---------------------------------------------------------------------
\* C16: the heartbeat entry point exits with a non-zero code exactly when
\* some message returned by fetch_emails is critical or high; then the
\* printed notification lists exactly those messages, critical ones first,
\* and critical_count + high_count is the number of listed items.  In every
\* other completion it prints HEARTBEAT_OK and exits with code 0.
HeartbeatExitCodeRule ==
    (adv_entry = "heartbeat" /\ adv_pc = "done") =>
        LET alerting == \E i \in 1..Len(adv_emails) :
                            adv_emails[i].importance \in {"critical", "high"}
        IN  /\ exit_code \in {0, 1}
            /\ (exit_code # 0) <=> alerting
            /\ alerting =>
                /\ stdout = [json |-> notification]
                /\ notification.critical_count + notification.high_count
                       = Len(notification.items)
                /\ Len(notification.items)
                       = Cardinality({i \in 1..Len(adv_emails) :
                             adv_emails[i].importance \in {"critical", "high"}})
                /\ \A i \in 1..Len(notification.items) :
                       notification.items[i].importance =
                           IF i <= notification.critical_count THEN "critical"
                           ELSE "high"
            /\ ~alerting =>
                /\ stdout = [line |-> "HEARTBEAT_OK"]
                /\ notification = None

\* a heartbeat that found a high message before a critical one
HeartbeatAlertWitness ==
    /\ adv_entry = "heartbeat"
    /\ adv_pc = "done"
    /\ exit_code = 1
    /\ Len(adv_emails) = 2
    /\ adv_emails[1].importance = "high"
    /\ adv_emails[2].importance = "critical"
    /\ notification.critical_count = 1
    /\ notification.high_count = 1


\* ---------------------------------------------------------------------
\* parsed holds the parsed messages of a subsequence of the handles ids
IsParsedSubsequence(parsed, ids) ==
    \E S \in SUBSET (1..Len(ids)) :
        /\ Cardinality(S) = Len(parsed)
        /\ \A k \in 1..Len(parsed) :
               LET idx == CHOOSE i \in S : Cardinality({x \in S : x <= i}) = k
               IN  parsed[k] = ParsedEmail(ids[idx])

\* ---------------------------------------------------------------------
\* C14: within a run the handles are processed one at a time in the order
\* the search returned them; a message that fails to fetch or parse is
\* skipped alone.  Every step of the loop handles the handle at the
\* current position, appends its parsed message or nothing, and moves to
\* the next position; the loop is left only behind the last handle.  So
\* the parsed messages are always those of a subsequence, in search order,
\* of the handles processed so far.
ProcessedInSearchOrder ==
    /\ [](pc \in {"parsing", "parsed"} =>
            /\ pos \in 1..(Len(email_ids) + 1)
            /\ IsParsedSubsequence(emails, SubSeq(email_ids, 1, pos - 1)))
    /\ [][/\ (pc = "parsing" /\ pos <= Len(email_ids)) =>
                /\ pc' = "parsing"
                /\ email_ids' = email_ids
                /\ pos' = pos + 1
                /\ emails' \in {emails, Append(emails, ParsedEmail(email_ids[pos]))}
          /\ (pc = "parsing" /\ pc' # "parsing") =>
                /\ pos = Len(email_ids) + 1
                /\ emails' = emails]_vars

\* the first of two handles failed and the second was still parsed
SkippedMessageWitness ==
    /\ pc = "parsed"
    /\ Len(email_ids) = 2
    /\ emails = <<ParsedEmail(email_ids[2])>>


\* ---------------------------------------------------------------------
\* the position, in the priority order of classify_email_type, of the
\* types one of whose keywords occurs in the lower-cased subject
TypeOrder ==
    <<"capacity_report", "inspection_report", "alert", "cost_report", "security_report">>

MatchingTypes(lists, subject) ==
    {k \in 1..Len(lists) :
        \E i \in 1..Len(lists[k]) : Contains(lists[k][i], Lower(subject))}

\* the earliest type of a set of positions, 'general' for none
FirstOf(matching) ==
    IF matching = {} THEN "general" ELSE TypeOrder[MinOf(matching)]

\* the keywords the statement lists for each type
ListedKeywords ==
    << <<<<"c","a","p","a","c","i","t","y">>, <<"l","o","a","d">>>>, <<<<"i","n","s","p","e","c","t","i","o","n">>, <<"c","h","e","c","k">>>>, <<<<"a","l","e","r","t">>, <<"w","a","r","n","i","n","g">>>>,
       <<<<"c","o","s","t">>, <<"b","i","l","l","i","n","g">>>>, <<<<"s","e","c","u","r","i","t","y">>, <<"r","i","s","k">>>> >>

\* the keyword lists of the code
CodeKeywords ==
    <<capacity_keywords, inspection_keywords, alert_type_keywords,
      cost_keywords, security_keywords>>

\* ---------------------------------------------------------------------
\* the sets of matching types of each subject, computed once
ListedMatches ==
    [s \in Subjects |-> MatchingTypes(ListedKeywords, s)]
CodeMatches ==
    [s \in Subjects |-> MatchingTypes(CodeKeywords, s)]

CriticalPresent ==
    [s \in Subjects |-> [b \in BodyTexts |->
        \E i \in 1..Len(critical) : Contains(critical[i], Lower(s \o <<" ">> \o b))]]
HighPresent ==
    [s \in Subjects |-> [b \in BodyTexts |->
        \E i \in 1..Len(high) : Contains(high[i], Lower(s \o <<" ">> \o b))]]

\* ---------------------------------------------------------------------
\* C20: under the presence policy the result is one of critical, high and
\* normal: critical when subject + ' ' + text holds a critical keyword
\* (whatever else is present), otherwise high when it holds a high keyword
\* or the structured data has at least one alert snippet, otherwise normal.
PresencePolicyRule ==
    "advanced" \in classified =>
        LET c == CriticalPresent[msg_subject][msg_content.text]
            h == HighPresent[msg_subject][msg_content.text]
            sd == msg_content.structured_data
            a == sd # <<>> /\ Len(sd.alerts) >= 1
        IN  /\ importance_advanced \in {"critical", "high", "normal"}
            /\ importance_advanced \notin {"low", "medium"}
            /\ (importance_advanced = "critical") <=> c
            /\ (importance_advanced = "high") <=> (~c /\ (h \/ a))
            /\ (importance_advanced = "normal") <=> (~c /\ ~h /\ ~a)

\* a critical keyword together with a high keyword and an alert snippet
PresencePolicyWitness ==
    /\ "advanced" \in classified
    /\ msg_subject = <<"u","r","g","e","n","t"," ","u","p","d","a","t","e">>
    /\ msg_content.text = <<"C","P","U"," ","H","I","G","H">>
    /\ msg_content.structured_data # <<>>
    /\ Len(msg_content.structured_data.alerts) = 1
    /\ importance_advanced = "critical"


\* ---------------------------------------------------------------------
\* whether the weekly analysis marks the sub-analysis under key as lacking
\* data: by its own trend, or by the prediction of the whole analysis
MarkedInsufficient(weekly, key) ==
    IF "prediction" \in DOMAIN weekly THEN weekly.prediction = "insufficient_data"
    ELSE weekly[key].trend = "insufficient_data"

\* ---------------------------------------------------------------------
\* C17: with fewer than 2 entries in the history (none, or exactly one)
\* the sub-analyses report 'insufficient data', and analyze_weekly_trends
\* reflects that for every sub-analysis.  Stated for the volume analysis
\* called alone and for the volume, importance and category entries of the
\* weekly analysis.
InsufficientDataBelowTwoEntries ==
    Len(history) < 2 =>
        /\ "volume" \in analysed => volume_trend.trend = "insufficient_data"
        /\ "weekly" \in analysed =>
            /\ MarkedInsufficient(weekly_analysis, "email_volume_trend")
            /\ MarkedInsufficient(weekly_analysis, "importance_trends")
            /\ MarkedInsufficient(weekly_analysis, "category_trends")

\* ---------------------------------------------------------------------
\* the keywords of the days of a window, concatenated in order
RECURSIVE KeywordsOfDays(_)
KeywordsOfDays(window) ==
    IF window = <<>> THEN <<>>
    ELSE Get(window[1], "keywords", <<>>) \o KeywordsOfDays(Tail(window))

\* ---------------------------------------------------------------------
\* C18: for a history of n >= 2 entries and a window size days, the recent
\* window of analyze_keyword_trends is the last 3 entries of history[-days:]
\* (all of them when there are fewer than 3) and the previous window is
\* every earlier entry of history[-days:], also when the history holds
\* fewer than days entries; the result is computed from these two windows.
RecentWindowIsLastThree ==
    ("keyword" \in analysed /\ Len(history) >= 2) =>
        LET window == LastDays(history, days)
            n == Len(window)
            first_recent == Max(1, n - 2)
            recent == KeywordsOfDays(SubSeq(window, first_recent, n))
            previous == KeywordsOfDays(SubSeq(window, 1, first_recent - 1))
        IN  /\ recent_keywords_of(history, days) = recent
            /\ previous_keywords_of(history, days) = previous
            /\ keyword_trends =
                  TrendEntries(CounterKeys(recent), recent, previous, "emerging")
                  \o TrendEntries(CounterKeys(previous), recent, previous, "declining")


\* ---------------------------------------------------------------------
\* C27 as stated: the volume trend is labelled 'decreasing' or
\* 'significantly_decreasing' only when the change rate is negative.
DecreasingOnlyWhenNegative ==
    (VolumeAnalysed /\ volume_trend.trend \in {"decreasing", "significantly_decreasing"}) =>
        /\ volume_trend.change_rate.num < 0
        /\ LatestTotal < PreviousTotal

\* C27 (amended): the volume trend is 'significantly_decreasing' exactly
\* when the change rate is below -20, and 'decreasing' exactly when the
\* change rate lies in [-20, -5] or is exactly 5; so the only non-negative
\* change rate labelled 'decreasing' is exactly 5 (e.g. totals 20 then 21),
\* and none is labelled 'significantly_decreasing'.
DecreasingBandsAndBoundary ==
    VolumeAnalysed =>
        LET rate == volume_trend.change_rate
        IN  /\ (volume_trend.trend = "significantly_decreasing") <=> RatLess(rate, -20)
            /\ (volume_trend.trend = "decreasing") <=>
                  \/ (~RatLess(rate, -20) /\ ~RatGreater(rate, -5))
                  \/ rate = [num |-> 5, den |-> 1]
            /\ (volume_trend.trend \in {"decreasing", "significantly_decreasing"}
                    /\ rate.num >= 0) =>
                  (PreviousTotal > 0 /\ (LatestTotal - PreviousTotal) * 100 = 5 * PreviousTotal)

\* totals 20 then 21 have been analysed
RisingLabelledDecreasingWitness ==
    /\ VolumeAnalysed
    /\ PreviousTotal = 20
    /\ LatestTotal = 21
    /\ volume_trend.change_rate = [num |-> 5, den |-> 1]
    /\ volume_trend.trend = "decreasing"


\* the parsed messages of importance 'high', in message order
HighEmails == SelectSeq(emails, LAMBDA e : e.importance = "high")

\* C24: in every Daily Aggregate the urgent items are the messages of
\* importance 'high', one entry each and in message order, as many as
\* by_importance['high'] counts; an entry's summary is the body when the body
\* has at most 200 characters and the first 200 characters followed by '...'
\* otherwise
UrgentItemsPerHighMessage ==
    key_data # None =>
        /\ Len(key_data.urgent_items) = Len(HighEmails)
        /\ Len(key_data.urgent_items) = key_data.by_importance.high
        /\ \A i \in 1..Len(HighEmails) :
              /\ key_data.urgent_items[i].subject = HighEmails[i].subject
              /\ key_data.urgent_items[i].summary =
                    IF Len(HighEmails[i].body) <= 200
                    THEN HighEmails[i].body
                    ELSE SubSeq(HighEmails[i].body, 1, 200) \o <<".",".",".">>

\* a run whose two messages are both of importance 'high', the first with a
\* body of exactly 200 characters kept whole, the second with 201 characters
\* cut to 200 and the marker
UrgentSummaryBoundaryWitness ==
    /\ key_data # None
    /\ Len(emails) = 2
    /\ Len(emails[1].body) = 200
    /\ Len(emails[2].body) = 201
    /\ Len(key_data.urgent_items) = 2
    /\ key_data.urgent_items[1].summary = emails[1].body
    /\ Len(key_data.urgent_items[2].summary) = 203
    /\ SubSeq(key_data.urgent_items[2].summary, 201, 203) = <<".",".",".">>


\* C25 as stated: the decision list has one entry per parsed message that
\* carries a decision indicator
DecisionPerIndicator ==
    key_data # None =>
        Len(key_data.key_decisions)
            = Len(SelectSeq(emails, LAMBDA e : IndicatorTable[e.id]))


\* the messages of the mailbox whose subject holds 'decision' or whose body
\* holds 'decide', in any case of letters
IndicatedMessages ==
    {i \in 1..Len(Inbox) :
        \/ Contains(<<"d","e","c","i","s","i","o","n">>, Lower(Inbox[i].subject))
        \/ Contains(<<"d","e","c","i","d","e">>, Lower(Inbox[i].body))}

\* the messages of the mailbox in whose lower-cased body a decision pattern
\* matches
PatternMessages ==
    {i \in 1..Len(Inbox) : FirstDecisionMatch(Lower(Inbox[i].body)) # <<>>}

\* C25 (amended): the decision list holds, in message order, one entry for
\* each parsed message that both carries the indicator ('decision' in the
\* subject or 'decide' in the body) and has a decision pattern matching in
\* its body: the first match with the subject and date of the message.  A
\* message without the indicator contributes none, and neither does one
\* with the indicator in whose body no pattern matches.
DecisionPerIndicatedMatch ==
    key_data # None =>
        LET contributing == SelectSeq(emails,
                LAMBDA e : e.id \in IndicatedMessages /\ e.id \in PatternMessages)
        IN  /\ Len(key_data.key_decisions) = Len(contributing)
            /\ \A i \in 1..Len(contributing) :
                  /\ key_data.key_decisions[i].subject = contributing[i].subject
                  /\ key_data.key_decisions[i].date = contributing[i].date
                  /\ key_data.key_decisions[i].decision
                        = FirstDecisionMatch(Lower(contributing[i].body))

\* a run of two messages: one with the indicator and no pattern match, one
\* with a pattern match and no indicator; the decision list stays empty
IndicatorWithoutDecisionWitness ==
    /\ key_data # None
    /\ Len(emails) = 2
    /\ emails[1].id \in IndicatedMessages \ PatternMessages
    /\ emails[2].id \in PatternMessages \ IndicatedMessages
    /\ key_data.key_decisions = <<>>


\* ---------------------------------------------------------------------
\* total_emails of the aggregate the history file holds, -1 when there is
\* no file or its text does not load as a dict with that key
PersistedTotal(file) ==
    IF ~file.exists THEN -1
    ELSE LET loaded == json_load(file.toks)
         IN  IF /\ loaded.ok
                /\ JsonKind(file.toks) = "dict"
                /\ "total_emails" \in DOMAIN loaded.v
             THEN loaded.v.total_emails
             ELSE -1

\* the step of a run in which compare_with_history is called
ComparisonStep == pc = "extracted" /\ pc' = "compared"

\* the delta is the total of this run minus the total the file held when
\* the step began, or 0 when the file was missing or could not be read
DeltaAgainstFileBefore ==
    LET before == PersistedTotal(history_file)
    IN  comparison'.email_count_change
            \in {0} \cup (IF before # -1 THEN {key_data.total_emails - before} ELSE {})

\* the file holds a readable total only if some run wrote it, and then it is
\* the total of the latest aggregate written (the file and the record of
\* what was written change in the comparison step alone)
FileHoldsLatestWritten ==
    LET held == PersistedTotal(history_file)
    IN  held # -1 =>
            /\ written # <<>>
            /\ held = written[Len(written)].total_emails

\* the rendered digest shows the delta and carries 'Volume Spike' exactly
\* when the delta is above 5
SpikeExactlyAboveFive ==
    (pc = "done" /\ report.kind = "report") =>
        /\ report.email_count_change = comparison.email_count_change
        /\ (\E i \in 1..Len(report.recommendations) :
                report.recommendations[i] = "Volume Spike")
             <=> comparison.email_count_change > 5

\* C26 as stated: the delta of a run is its total minus the total persisted
\* by the latest earlier run that wrote history (0 without readable history),
\* computed before the file is overwritten; after the run the persisted
\* total is the total of the run; 'Volume Spike' is emitted exactly when
\* the delta is above 5
DeltaThenPersistedTotal ==
    /\ []((pc = "compared" => FileHoldsLatestWritten) /\ SpikeExactlyAboveFive)
    /\ [][/\ ComparisonStep =>
                /\ DeltaAgainstFileBefore
                /\ PersistedTotal(history_file') = key_data.total_emails
          /\ ~ComparisonStep => UNCHANGED <<history_file, written>>]_vars

\* C26 (amended): as above, but the persisted total is the total of the run
\* only when save_history succeeds; when opening the file fails the file is
\* left as it was, and when the write fails behind the opening the file no
\* longer holds a readable total
DeltaThenPersistedTotalUnlessWriteFails ==
    /\ []((pc = "compared" => FileHoldsLatestWritten) /\ SpikeExactlyAboveFive)
    /\ [][/\ ComparisonStep =>
                /\ DeltaAgainstFileBefore
                /\ \/ /\ written' = Append(written, key_data)
                      /\ PersistedTotal(history_file') = key_data.total_emails
                   \/ /\ written' = written
                      /\ \/ history_file' = history_file
                         \/ PersistedTotal(history_file') = -1
          /\ ~ComparisonStep => UNCHANGED <<history_file, written>>]_vars

\* the first run persisted a total of 0, the second parsed six messages:
\* its digest shows a delta of 6 with the volume spike, and the file holds 6
VolumeSpikeWitness ==
    /\ pc = "done"
    /\ report.kind = "report"
    /\ Len(written) = 2
    /\ written[1].total_emails = 0
    /\ report.email_count_change = 6
    /\ \E i \in 1..Len(report.recommendations) :
           report.recommendations[i] = "Volume Spike"
    /\ PersistedTotal(history_file) = 6


ConnectionLoggedOutOnReturn ==
    adv_pc \in {"fetched", "reported", "done"} => adv_mail # "open"


\* ---------------------------------------------------------------------
\* C29: for every loaded history (empty, one aggregate, two or more)
\* generate_weekly_report returns a rendered report and raises nothing
WeeklyReportAlwaysRendered ==
    weekly_report # None => weekly_report.kind = "report"


\* ---------------------------------------------------------------------
\* the parts of a message that are attachments, and those that are plain
\* text and no attachment
IsAttachmentPart(part) == Contains(<<"a","t","t","a","c","h","m","e","n","t">>, part.disposition)
AttachmentParts(message) == SelectSeq(message.parts, IsAttachmentPart)
PlainParts(message) ==
    SelectSeq(message.parts,
              LAMBDA part : ~IsAttachmentPart(part) /\ part.content_type = "text/plain")

\* the decoded texts of the parts, one behind the other
RECURSIVE DecodedTexts(_)
DecodedTexts(parts) ==
    IF parts = <<>> THEN <<>>
    ELSE DecodeIgnore(Head(parts).payload) \o DecodedTexts(Tail(parts))

\* C21: the plain-text field of the Content Bundle of a multipart message is
\* the decoded text of all its plain-text parts that are no attachments,
\* concatenated in part order; only when they produce no text is it the text
\* derived from the HTML part
PlainTextIsConcatenation ==
    \A i \in 1..Len(parsed_full) :
        LET message == fetched_raw[parsed_full[i].id]
            content == parsed_full[i].content
            plain == DecodedTexts(PlainParts(message))
        IN  message.multipart =>
                /\ plain # <<>> => content.text = plain
                /\ (plain = <<>> /\ content.html_text # None) =>
                        content.text = content.html_text

\* C22: every attachment saved is stored as <message id>_<sanitized
\* filename>, and no stored file is written a second time: no two
\* attachments, of one message or of two, share a stored path
AttachmentNeverOverwritten ==
    /\ \A i \in 1..Len(parsed_full) :
          \A k \in 1..Len(parsed_full[i].content.attachments) :
              LET info == parsed_full[i].content.attachments[k]
              IN  info.saved_name
                    = <<ToString(parsed_full[i].id), "_">> \o SafeFilename(info.original_name)
    /\ \A i, j \in 1..Len(attachment_writes) :
          i # j => attachment_writes[i].path # attachment_writes[j].path

\* C23: decode_mime_words raises for no header, so that no message is
\* dropped for its subject and no attachment for its filename: every
\* message handed to parse_email_full is returned, with one descriptor for
\* each attachment part that has a filename and a payload
HeaderNeverDropsAnything ==
    /\ \A i \in 1..Len(fetched_raw) :
          /\ decode_mime_words(fetched_raw[i].subject).kind = "str"
          /\ \A k \in 1..Len(fetched_raw[i].parts) :
                decode_mime_words(fetched_raw[i].parts[k].filename).kind = "str"
    /\ Len(parsed_full) = Len(fetched_raw)
    /\ \A i \in 1..Len(parsed_full) :
          LET message == fetched_raw[parsed_full[i].id]
          IN  message.multipart =>
                Len(parsed_full[i].content.attachments)
                    = Len(SelectSeq(AttachmentParts(message),
                                    LAMBDA part : part.filename # <<>> /\ part.payload # <<>>))

====
